---- MODULE Spec2Model ----
(***************************************************************************)
(* Model of yt-clipper: the acquisition pipeline                           *)
(* (App.LoadVideo -> Downloader.DownloadForPreview and its strategies),    *)
(* the preview server's current-video pair, and the trim/export engine     *)
(* (App.ExportClip -> Processor.TrimVideoWithProgress).                    *)
(*                                                                         *)
(* Progress values are floats in the program; here they are integers in    *)
(* thousandths (1.0 is One).  File paths are triples                       *)
(* <<base name, suffix, extension>> under the temp directory.              *)
(***************************************************************************)
EXTENDS Integers, Sequences, FiniteSets, TLC

\* ------------------------------------------------------------------ bounds
\* Number of LoadVideo calls in one session.
MaxLoads == 2
\* Largest stream length, in reads of the source, of one fetch.
MaxChunks == 2
\* Number of out_time_ms lines the encoder writes during one export.
MaxLines == 2

\* ------------------------------------------------- progress value constants
One == 1000
YtdlpStartProgress == 100
VideoWeight == 750
AudioBase == 750
AudioWeight == 200
ReportStep == 10

\* --------------------------------------------------------------- mime types
\* A MimeType string such as  video/mp4; codecs="avc1.64001F, mp4a.40.2"
\* is the record [type, container, codecs].
Mime(t, c, cs) == [type |-> t, container |-> c, codecs |-> cs]

\* strings.Contains(mimeType, s) for the substrings the program tests.
MimeContains(m, s) ==
    CASE s = "video"      -> m.type = "video"
      [] s = "audio"      -> m.type = "audio"
      [] s = "video/mp4"  -> m.type = "video" /\ m.container = "mp4"
      [] s = "video/webm" -> m.type = "video" /\ m.container = "webm"
      [] s = "audio/mp4"  -> m.type = "audio" /\ m.container = "mp4"
      [] s = "audio/webm" -> m.type = "audio" /\ m.container = "webm"
      [] s = "webm"       -> m.container = "webm"
      [] OTHER            -> s \in m.codecs

Fmt(m, ch, h, br) == [mime |-> m, ch |-> ch, height |-> h, bitrate |-> br]

\* Index of a format in a list, 0 standing for the nil pointer.
Nil == 0

\* The indices of list s, in list order, whose format satisfies Test: the
\* candidate slices the selectors build with append.
Indices(s, Test(_)) ==
    SelectSeq([i \in 1..Len(s) |-> i], LAMBDA i : Test(s[i]))

\* pickBestVideoOnly over the candidates idx (indices into fs): the loop
\* from the second candidate on, carrying the best index so far.
RECURSIVE VideoOnlyLoop(_, _, _, _)
VideoOnlyLoop(fs, idx, i, best) ==
    IF i > Len(idx) THEN best
    ELSE LET f == fs[idx[i]]
             b == fs[best]
         IN IF f.height > b.height THEN VideoOnlyLoop(fs, idx, i + 1, idx[i])
            ELSE IF f.height = b.height /\ f.bitrate > b.bitrate
                 THEN VideoOnlyLoop(fs, idx, i + 1, idx[i])
                 ELSE VideoOnlyLoop(fs, idx, i + 1, best)

\* pickBestVideoOnly without the loop: the first candidate.
pickBestVideoOnly_First(fs, idx) ==
    IF Len(idx) = 0 THEN Nil ELSE idx[1]

pickBestVideoOnly(fs, idx) ==
    IF Len(idx) = 0 THEN Nil ELSE VideoOnlyLoop(fs, idx, 2, idx[1])

RECURSIVE AudioOnlyLoop(_, _, _, _)
AudioOnlyLoop(fs, idx, i, best) ==
    IF i > Len(idx) THEN best
    ELSE IF fs[idx[i]].bitrate > fs[best].bitrate
         THEN AudioOnlyLoop(fs, idx, i + 1, idx[i])
         ELSE AudioOnlyLoop(fs, idx, i + 1, best)

pickBestAudioOnly(fs, idx) ==
    IF Len(idx) = 0 THEN Nil ELSE AudioOnlyLoop(fs, idx, 2, idx[1])

RECURSIVE WithAudioLoop(_, _, _, _)
WithAudioLoop(fs, idx, i, best) ==
    IF i > Len(idx) THEN best
    ELSE LET f == fs[idx[i]]
             b == fs[best]
         IN IF f.height = 720 /\ b.height # 720
            THEN WithAudioLoop(fs, idx, i + 1, idx[i])
            ELSE IF b.height = 720 /\ f.height # 720
            THEN WithAudioLoop(fs, idx, i + 1, best)
            ELSE IF f.height > b.height
            THEN WithAudioLoop(fs, idx, i + 1, idx[i])
            ELSE IF f.height = b.height /\ f.bitrate > b.bitrate
            THEN WithAudioLoop(fs, idx, i + 1, idx[i])
            ELSE WithAudioLoop(fs, idx, i + 1, best)

\* pickBestWithAudio without the 720 rule: greatest height, then bitrate.
pickBestWithAudio_NoPin(fs, idx) ==
    IF Len(idx) = 0 THEN Nil ELSE VideoOnlyLoop(fs, idx, 2, idx[1])

pickBestWithAudio(fs, idx) ==
    IF Len(idx) = 0 THEN Nil ELSE WithAudioLoop(fs, idx, 2, idx[1])

IsWithAudio(f) == f.ch > 0 /\ MimeContains(f.mime, "video")
IsMp4Any(f) == IsWithAudio(f) /\ MimeContains(f.mime, "video/mp4")
IsMp4H264(f) ==
    IsMp4Any(f) /\ MimeContains(f.mime, "avc1") /\ MimeContains(f.mime, "mp4a")
\* The last-resort test taking video/mp4 only.
IsAnyVideo_Mp4Only(f) == MimeContains(f.mime, "video/mp4")

IsAnyVideo(f) == MimeContains(f.mime, "video")

\* selectFormat with the any-mp4 tier tried before the avc1+mp4a tier.
selectFormat_Mp4First(fs) ==
    LET h264 == pickBestWithAudio(fs, Indices(fs, IsMp4H264))
        mp4  == pickBestWithAudio(fs, Indices(fs, IsMp4Any))
        any  == pickBestWithAudio(fs, Indices(fs, IsWithAudio))
        vid  == Indices(fs, IsAnyVideo)
    IN IF mp4 # Nil THEN mp4
       ELSE IF h264 # Nil THEN h264
       ELSE IF any # Nil THEN any
       ELSE IF Len(vid) > 0 THEN vid[1]
       ELSE Nil

\* selectFormat: the index of the picked format, Nil if there is none.
selectFormat(fs) ==
    LET h264 == pickBestWithAudio(fs, Indices(fs, IsMp4H264))
        mp4  == pickBestWithAudio(fs, Indices(fs, IsMp4Any))
        any  == pickBestWithAudio(fs, Indices(fs, IsWithAudio))
        vid  == Indices(fs, IsAnyVideo)
    IN IF h264 # Nil THEN h264
       ELSE IF mp4 # Nil THEN mp4
       ELSE IF any # Nil THEN any
       ELSE IF Len(vid) > 0 THEN vid[1]
       ELSE Nil

IsVideoOnly(f) ==
    /\ f.ch = 0
    /\ MimeContains(f.mime, "video")
    /\ (MimeContains(f.mime, "video/mp4") \/ MimeContains(f.mime, "video/webm"))

IsAudioOnly(f) ==
    /\ f.ch > 0
    /\ MimeContains(f.mime, "audio")
    /\ (MimeContains(f.mime, "audio/mp4") \/ MimeContains(f.mime, "audio/webm"))

\* selectMuxFormats: the pair <<video index, audio index>>.
selectMuxFormats(fs) ==
    << pickBestVideoOnly(fs, Indices(fs, IsVideoOnly)),
       pickBestAudioOnly(fs, Indices(fs, IsAudioOnly)) >>

extensionFromMimeType(m) ==
    IF MimeContains(m, "video/mp4") THEN ".mp4"
    ELSE IF MimeContains(m, "video/webm") THEN ".webm"
    ELSE ""

needsSafariTranscode(f) ==
    ~ ( /\ MimeContains(f.mime, "video/mp4")
        /\ MimeContains(f.mime, "avc1")
        /\ MimeContains(f.mime, "mp4a") )

\* weightedProgress without the clamp of the raw value.
weightedProgress_NoClamp(base, weight, p) == base + (p * weight) \div One

\* weightedProgress(parent, base, weight)(p): the value handed to parent.
Clamp01(p) == IF p < 0 THEN 0 ELSE IF p > One THEN One ELSE p
weightedProgress(base, weight, p) == base + (Clamp01(p) * weight) \div One

\* ------------------------------------------------------------ the inputs
\* The videos a session can load: <<video id, sanitized title>>.
Videos == { <<"id1", "A">>, <<"id2", "B">> }

H264 == Mime("video", "mp4", {"avc1"})
H264AAC == Mime("video", "mp4", {"avc1", "mp4a"})
VP9 == Mime("video", "webm", {"vp9"})
VP9Opus == Mime("video", "webm", {"vp9", "opus"})
AAC == Mime("audio", "mp4", {"mp4a"})
Opus == Mime("audio", "webm", {"opus"})
EC3 == Mime("audio", "mp4", {"ec-3"})

\* The format lists a video can advertise (video.Formats).
FormatLists ==
    << <<>>,
       << Fmt(H264AAC, 2, 720, 900) >>,
       << Fmt(VP9Opus, 2, 480, 500) >>,
       << Fmt(H264AAC, 2, 360, 400), Fmt(H264, 0, 1080, 3000),
          Fmt(AAC, 2, 0, 128) >>,
       << Fmt(VP9, 0, 1080, 2500), Fmt(Opus, 2, 0, 160) >>,
       << Fmt(H264AAC, 2, 360, 400), Fmt(VP9, 0, 1080, 2500) >> >>

\* ---------------------------------------------------------------- paths
NoPath == <<>>
PreviewPath(title) == <<title, "-preview", ".mp4">>

\* downloadAndMux: the temp paths of the two split streams.
VideoPath(title, f) ==
    LET ext == extensionFromMimeType(f.mime)
    IN <<title, "-video", IF ext = "" THEN ".mp4" ELSE ext>>

AudioPath(title, f) ==
    LET ext == extensionFromMimeType(f.mime)
    IN <<title, "-audio",
         IF ext # "" THEN ext
         ELSE IF MimeContains(f.mime, "audio/mp4") THEN ".m4a" ELSE ".webm">>

\* DownloadForPreview: the destination of the progressive fetch.
DestPath(title, f) ==
    LET ext == extensionFromMimeType(f.mime)
    IN <<title, "", IF ext = "" THEN ".mp4" ELSE ext>>

\* ------------------------------------------------------------------ state
VARIABLES
    previewUp,       \* App.previewBaseURL # "" (set by startup)
    files,           \* the files that exist in App.tempDir
    currentVideo,    \* Server.currentVideo
    currentVideoID,  \* Server.currentVideoID
    loads,           \* number of LoadVideo calls so far
    pc,              \* position of the LoadVideo call in progress
    job,             \* inputs of the call: video, format list, tools found
    cancelled,       \* App.ctx is done
    phase,           \* which stream is being fetched: video, audio, prog
    fpath,           \* destination path of the fetch in progress
    stream,          \* the source stream and the progressReader over it
    fetchErr,        \* how the fetch in progress failed, "none" if not
    dfp,             \* what DownloadForPreview returned: [status, path]
    reported,        \* values delivered to the job's progress callback
    started,         \* strategies this DownloadForPreview call has started,
                     \* in order, each with its outcome so far
    created,         \* paths this DownloadForPreview call created
    cancelAt,        \* position of this call at which the context was cancelled
    errAt,           \* the step whose failure DownloadForPreview returned
    procs,           \* the processes this DownloadForPreview call has run,
                     \* in order: tool, codec arguments, how the run ended
    prevVideo,       \* Server.currentVideo when the last LoadVideo call began
    lastLoad,        \* how the last LoadVideo call returned: ok, err, none
    completes        \* download:complete events the last LoadVideo call
                     \* has emitted

acqVars == << previewUp, files, currentVideo, currentVideoID, loads, pc, job,
              cancelled, phase, fpath, stream, fetchErr, dfp, reported,
              started, created, cancelAt, errAt, procs, prevVideo,
              lastLoad, completes >>

\* The export in progress (App.ExportClip -> TrimVideoWithProgress).
VARIABLES
    epc,             \* position of the ExportClip call
    trim,            \* TrimOptions: start and end time in seconds
    launched,        \* number of encoder processes started
    proc,            \* the encoder process: none, running, exited
    procOK,          \* the encoder exited with status zero
    written,         \* number of out_time_ms lines the encoder has written
    pipe,            \* lines in the stdout pipe, not yet read
    pipeClosed,      \* cmd.Wait has closed the read end of the pipe
    rpc,             \* position of the progress-reader goroutine
    buf,             \* lines of the chunk the reader is splitting
    delivered,       \* values delivered to the export progress callback
    exportErr,       \* error returned by the export, "none" if none
    completeSent,    \* export:complete has been emitted
    req,             \* what the ExportClip call was given and found
    emitted,         \* the out_time_ms values the encoder has written
    pipeCut,         \* the first line in the pipe has lost its beginning
                     \* to an earlier read
    stderrText,      \* what the encoder has written to its stderr
    errText,         \* the pieces of text in the returned error
    outFile          \* the file at the export's output path: none, partial
                     \* (zero bytes or more of an unfinished file), complete

expVars == << epc, trim, launched, proc, procOK, written, pipe, pipeClosed,
              rpc, buf, delivered, exportErr, completeSent, req, emitted,
              pipeCut, stderrText, errText, outFile >>

\* The format selectors applied to a format list on their own.
VARIABLES
    selIn,           \* the format list handed to the selectors
    selProg,         \* what selectFormat returned: an index, Nil, or Unset
    selMux,          \* what selectMuxFormats returned: a pair of indices
    selArgs          \* the codec arguments downloadAndMux builds for the pair

selVars == << selIn, selProg, selMux, selArgs >>

\* The preview server (video.Server) under concurrent use, and the temp
\* directory startup made for it.
VARIABLES
    tempDir,         \* App.tempDir
    allowedDir,      \* Server.allowedDir
    mu,              \* Server.mu: a writer holds it, number of readers
    wpc,             \* position of the goroutine running LoadVideo in its
                     \* calls of ClearVideo and SetCurrentVideo
    wargs,           \* arguments of the SetCurrentVideo call: path, id
    rq,              \* the ServeHTTP call in progress: its position, the
                     \* requested id, its local copies of the server's
                     \* fields, and the pair that was current when it took
                     \* the read lock
    resp             \* status of the response ServeHTTP wrote

srvVars == << tempDir, allowedDir, mu, wpc, wargs, rq, resp >>

\* A callback built by weightedProgress, called on its own.
VARIABLES
    progCb,          \* the callback built: whether its parent is non-nil,
                     \* its base and its weight
    progRaw,         \* the raw values the callback was called with
    progCalls        \* the values its parent was called with

cbVars == << progCb, progRaw, progCalls >>

vars == << acqVars, expVars, selVars, srvVars, cbVars >>

NoJob == [video |-> <<"", "">>, fl |-> 1, ytdlp |-> FALSE, ffmpeg |-> FALSE]
NoStream == [total |-> 0, left |-> 0, read |-> 0, last |-> 0]
NoResult == [status |-> "none", path |-> NoPath]

Title == job.video[2]
Formats == FormatLists[job.fl]

NoTrim == [start |-> 0, end |-> 0]
NoOutput == << >>
NoReq == [input |-> NoPath, abs |-> FALSE, start |-> 0, end |-> 0,
          output |-> NoOutput]

ExportInit ==
    /\ epc = "idle"
    /\ trim = NoTrim
    /\ launched = 0
    /\ proc = "none"
    /\ procOK = FALSE
    /\ written = 0
    /\ pipe = <<>>
    /\ pipeClosed = FALSE
    /\ rpc = "none"
    /\ buf = <<>>
    /\ delivered = <<>>
    /\ exportErr = "none"
    /\ completeSent = FALSE
    /\ req = NoReq
    /\ emitted = <<>>
    /\ pipeCut = FALSE
    /\ stderrText = ""
    /\ errText = {}
    /\ outFile = "none"

\* A selector that has not been applied yet has no result.
Unset == -1

SelectIdle ==
    /\ selIn = <<>>
    /\ selProg = Unset
    /\ selMux = << Unset, Unset >>
    /\ selArgs = << >>

NoCallback == [built |-> FALSE, parent |-> FALSE, base |-> 0, weight |-> 0]
CallbackIdle ==
    /\ progCb = NoCallback
    /\ progRaw = << >>
    /\ progCalls = << >>

\* Directories are sequences of path elements; "" is the empty one.
NoDir == <<>>
TempDir == << "tmp", "yt-clipper-1" >>
Cwd == << "home", "app" >>

NoRq == [pc |-> "none", id |-> "", path |-> NoPath, vid |-> "",
         dir |-> NoDir, truePath |-> NoPath, trueID |-> ""]

\* No call of the server's methods is in progress.
ServerIdle ==
    /\ mu = [w |-> FALSE, r |-> 0]
    /\ wpc = "idle"
    /\ wargs = << NoPath, "" >>
    /\ rq = NoRq
    /\ resp = "none"

\* startup: os.MkdirTemp succeeded and SetAllowedDir(tempDir) was called.
StartupOK ==
    /\ tempDir = TempDir
    /\ allowedDir = TempDir

\* startup: os.MkdirTemp failed; tempDir and allowedDir keep their zero
\* value.
StartupNoTempDir ==
    /\ tempDir = NoDir
    /\ allowedDir = NoDir

AcqInit ==
    /\ previewUp \in BOOLEAN
    /\ files = {}
    /\ currentVideo = NoPath
    /\ currentVideoID = ""
    /\ loads = 0
    /\ pc = "idle"
    /\ job = NoJob
    /\ cancelled = FALSE
    /\ phase = "none"
    /\ fpath = NoPath
    /\ stream = NoStream
    /\ fetchErr = "none"
    /\ dfp = NoResult
    /\ reported = <<>>
    /\ started = <<>>
    /\ created = {}
    /\ cancelAt = "none"
    /\ errAt = "none"
    /\ procs = <<>>
    /\ prevVideo = NoPath
    /\ lastLoad = "none"
    /\ completes = 0

\* The acquisition is followed in a session whose startup made its temp
\* directory: DownloadForPreview only joins file names to the directory it
\* is given.  The session without a temp directory is followed in
\* SpecServer.
Init ==
    /\ AcqInit /\ ExportInit /\ SelectIdle
    /\ ServerIdle /\ StartupOK /\ CallbackIdle

fetchVars == << phase, fpath, stream, fetchErr >>
histVars == << reported, started, created, errAt >>
serverVars == << currentVideo, currentVideoID >>
constVars == << previewUp, loads, job, prevVideo, lastLoad >>

\* A strategy is entered; the strategy entered last ends with an outcome.
Begin(name) == Append(started, [s |-> name, out |-> "running"])
End(out) == [started EXCEPT ![Len(started)].out = out]

\* downloadAndMux: the codec arguments of the mux process for the picked
\* video and audio formats.
needsVideoTranscode(f) ==
    \/ MimeContains(f.mime, "vp9") \/ MimeContains(f.mime, "vp09")
    \/ MimeContains(f.mime, "av01") \/ MimeContains(f.mime, "webm")
needsAudioTranscode(f) ==
    MimeContains(f.mime, "opus") \/ MimeContains(f.mime, "webm")
MuxArgs(v, a) ==
    << IF needsVideoTranscode(v) THEN "libx264" ELSE "copy",
       IF needsAudioTranscode(a) THEN "aac" ELSE "copy" >>

\* A process is started (exec.CommandContext); the run of the process
\* started last ends, and its caller takes it as a success or a failure
\* (downloadWithYtdlp also takes a run that left no output file as failed).
Launch(tool, args) ==
    Append(procs, [tool |-> tool, args |-> args, out |-> "running"])
Exited(ok) ==
    [procs EXCEPT ![Len(procs)].out = IF ok THEN "ok" ELSE "failed"]

\* DownloadForPreview returns (path, nil) or ("", err).
Return(status, path, at) ==
    /\ pc' = "dfp_done"
    /\ dfp' = [status |-> status, path |-> path]
    /\ errAt' = at

\* --------------------------------------------------------------- LoadVideo
\* LoadVideo up to the call of DownloadForPreview: the preview-server guard,
\* GetVideoInfo, ClearVideo.
LoadVideo ==
    /\ pc = "idle"
    /\ loads < MaxLoads
    /\ loads' = loads + 1
    /\ prevVideo' = currentVideo
    /\ \E infoOK \in BOOLEAN :
          /\ cancelled => ~infoOK
          /\ IF previewUp /\ infoOK
             THEN /\ currentVideo' = NoPath        \* ClearVideo
                  /\ currentVideoID' = ""
                  /\ pc' = "dfp_getvideo"
                  /\ lastLoad' = "none"
                  /\ \E v \in Videos, fl \in 1..Len(FormatLists),
                        y \in BOOLEAN, ff \in BOOLEAN :
                        job' = [video |-> v, fl |-> fl, ytdlp |-> y,
                                ffmpeg |-> ff]
                  /\ cancelAt' = IF cancelled THEN "before" ELSE "none"
             ELSE /\ UNCHANGED << serverVars, job, cancelAt >>
                  /\ pc' = "idle"
                  /\ lastLoad' = "err"
    /\ completes' = 0
    /\ UNCHANGED << previewUp, files, cancelled, fetchVars, dfp, histVars >>
    /\ UNCHANGED procs
    /\ UNCHANGED << expVars, selVars, srvVars, cbVars >>

\* LoadVideoFinish emitting download:complete whatever DownloadForPreview
\* returned.
LoadVideoFinish_AlwaysEmits ==
    /\ pc = "dfp_done"
    /\ IF dfp.status = "ok"
       THEN /\ currentVideo' = dfp.path
            /\ currentVideoID' = job.video[1]
            /\ pc' = "lv_emit"
            /\ UNCHANGED << lastLoad, job, completes >>
       ELSE /\ UNCHANGED serverVars
            /\ pc' = "idle"
            /\ lastLoad' = "err"
            /\ job' = NoJob
            /\ completes' = completes + 1
    /\ dfp' = NoResult
    /\ phase' = "none"
    /\ fpath' = NoPath
    /\ stream' = NoStream
    /\ fetchErr' = "none"
    /\ reported' = <<>>
    /\ started' = <<>>
    /\ created' = {}
    /\ errAt' = "none"
    /\ cancelAt' = "none"
    /\ UNCHANGED << previewUp, files, loads, cancelled, prevVideo >>
    /\ procs' = <<>>
    /\ UNCHANGED << expVars, selVars, srvVars, cbVars >>

\* LoadVideo after DownloadForPreview has returned: on error it returns;
\* on success it calls SetCurrentVideo and goes on to emit
\* download:complete.  The locals of the download go out of scope.
LoadVideoFinish ==
    /\ pc = "dfp_done"
    /\ IF dfp.status = "ok"
       THEN /\ currentVideo' = dfp.path
            /\ currentVideoID' = job.video[1]
            /\ pc' = "lv_emit"
            /\ UNCHANGED << lastLoad, job >>
       ELSE /\ UNCHANGED serverVars
            /\ pc' = "idle"
            /\ lastLoad' = "err"
            /\ job' = NoJob
    /\ dfp' = NoResult
    /\ phase' = "none"
    /\ fpath' = NoPath
    /\ stream' = NoStream
    /\ fetchErr' = "none"
    /\ reported' = <<>>
    /\ started' = <<>>
    /\ created' = {}
    /\ errAt' = "none"
    /\ cancelAt' = "none"
    /\ UNCHANGED << previewUp, files, loads, cancelled, prevVideo >>
    /\ procs' = <<>>
    /\ UNCHANGED completes
    /\ UNCHANGED << expVars, selVars, srvVars, cbVars >>

\* LoadVideo after SetCurrentVideo: download:complete is emitted and the
\* call returns the video's info and URL.
EmitComplete ==
    /\ pc = "lv_emit"
    /\ completes' = completes + 1
    /\ pc' = "idle"
    /\ lastLoad' = "ok"
    /\ job' = NoJob
    /\ cancelAt' = "none"
    /\ UNCHANGED << previewUp, files, serverVars, loads, cancelled,
                    fetchVars, dfp, reported, started, created, errAt,
                    prevVideo >>
    /\ UNCHANGED procs
    /\ UNCHANGED << expVars, selVars, srvVars, cbVars >>

\* The App context is cancelled.
Cancel ==
    /\ ~cancelled
    /\ cancelled' = TRUE
    /\ cancelAt' = IF pc = "idle" THEN "none" ELSE pc
    /\ UNCHANGED << previewUp, files, serverVars, loads, pc, job, fetchVars,
                    dfp, histVars, prevVideo, lastLoad >>
    /\ UNCHANGED procs
    /\ UNCHANGED completes
    /\ UNCHANGED << expVars, selVars, srvVars, cbVars >>

\* ------------------------------------------------------ DownloadForPreview
\* ExtractVideoID and GetVideoContext: the format list is obtained or the
\* call fails.
GetVideo ==
    /\ pc = "dfp_getvideo"
    /\ \E ok \in BOOLEAN :
          /\ cancelled => ~ok
          /\ IF ok
             THEN /\ pc' = "ytdlp_check"
                  /\ UNCHANGED << dfp, errAt >>
             ELSE Return("err", NoPath, "getvideo")
    /\ UNCHANGED << previewUp, files, serverVars, loads, job, cancelled,
                    fetchVars, reported, started, created, cancelAt,
                    prevVideo, lastLoad >>
    /\ UNCHANGED procs
    /\ UNCHANGED completes
    /\ UNCHANGED << expVars, selVars, srvVars, cbVars >>

\* The external-tool strategy is entered: downloadWithYtdlp reports 0.1 and
\* starts the yt-dlp process.
YtdlpStart ==
    /\ pc = "ytdlp_check"
    /\ job.ytdlp /\ job.ffmpeg
    /\ pc' = "ytdlp_run"
    /\ started' = Begin("ytdlp")
    /\ reported' = Append(reported, YtdlpStartProgress)
    /\ UNCHANGED << previewUp, files, serverVars, loads, job, cancelled,
                    fetchVars, dfp, created, cancelAt, errAt, prevVideo, lastLoad >>
    /\ procs' = Launch("ytdlp", << >>)
    /\ UNCHANGED completes
    /\ UNCHANGED << expVars, selVars, srvVars, cbVars >>

\* yt-dlp or the encoder path is missing: the strategy is skipped.
YtdlpSkip ==
    /\ pc = "ytdlp_check"
    /\ ~(job.ytdlp /\ job.ffmpeg)
    /\ pc' = "mux_check"
    /\ UNCHANGED << previewUp, files, serverVars, loads, job, cancelled,
                    fetchVars, dfp, histVars, cancelAt, prevVideo, lastLoad >>
    /\ UNCHANGED procs
    /\ UNCHANGED completes
    /\ UNCHANGED << expVars, selVars, srvVars, cbVars >>

\* YtdlpExit without the return on success: the call goes on to the next
\* strategy although the external tool succeeded.
YtdlpExit_NoReturn ==
    /\ pc = "ytdlp_run"
    /\ \E exitOK \in BOOLEAN, wrote \in BOOLEAN :
          LET outPath == PreviewPath(Title)
              after == IF wrote THEN files \cup {outPath} ELSE files
          IN /\ cancelled => ~exitOK
             /\ procs' = Exited(exitOK)
             /\ files' = after
             /\ created' = IF wrote THEN created \cup {outPath} ELSE created
             /\ reported' = Append(reported, One)
             /\ IF exitOK /\ outPath \in after
                THEN /\ started' = End("ok")
                     /\ pc' = "mux_check"
                     /\ UNCHANGED << dfp, errAt >>
                ELSE /\ started' = End("failed")
                     /\ pc' = "mux_check"
                     /\ UNCHANGED << dfp, errAt >>
    /\ UNCHANGED << previewUp, serverVars, loads, job, cancelled, fetchVars,
                    cancelAt, prevVideo, lastLoad >>
    /\ UNCHANGED completes
    /\ UNCHANGED << expVars, selVars, srvVars, cbVars >>

\* YtdlpExit without the test that the output file exists.
YtdlpExit_IgnoresOutput ==
    /\ pc = "ytdlp_run"
    /\ \E exitOK \in BOOLEAN, wrote \in BOOLEAN :
          LET outPath == PreviewPath(Title)
              after == IF wrote THEN files \cup {outPath} ELSE files
          IN /\ cancelled => ~exitOK
             /\ procs' = Exited(exitOK)
             /\ files' = after
             /\ created' = IF wrote THEN created \cup {outPath} ELSE created
             /\ reported' = Append(reported, One)
             /\ IF exitOK
                THEN /\ started' = End("ok")
                     /\ Return("ok", outPath, "none")
                ELSE /\ started' = End("failed")
                     /\ pc' = "mux_check"
                     /\ UNCHANGED << dfp, errAt >>
    /\ UNCHANGED << previewUp, serverVars, loads, job, cancelled, fetchVars,
                    cancelAt, prevVideo, lastLoad >>
    /\ UNCHANGED completes
    /\ UNCHANGED << expVars, selVars, srvVars, cbVars >>

\* cmd.Run returns: downloadWithYtdlp reports 1.0, then fails on a non-zero
\* exit or a missing output file.  The process may or may not have written
\* the output path, whatever its exit status.
YtdlpExit ==
    /\ pc = "ytdlp_run"
    /\ \E exitOK \in BOOLEAN, wrote \in BOOLEAN :
          LET outPath == PreviewPath(Title)
              after == IF wrote THEN files \cup {outPath} ELSE files
          IN /\ cancelled => ~exitOK
             /\ procs' = Exited(exitOK)
             /\ files' = after
             /\ created' = IF wrote THEN created \cup {outPath} ELSE created
             /\ reported' = Append(reported, One)
             /\ IF exitOK /\ outPath \in after
                THEN /\ started' = End("ok")
                     /\ Return("ok", outPath, "none")
                ELSE /\ started' = End("failed")
                     /\ pc' = "mux_check"
                     /\ UNCHANGED << dfp, errAt >>
    /\ UNCHANGED << previewUp, serverVars, loads, job, cancelled, fetchVars,
                    cancelAt, prevVideo, lastLoad >>
    /\ UNCHANGED completes
    /\ UNCHANGED << expVars, selVars, srvVars, cbVars >>

MuxPair == selectMuxFormats(Formats)

\* MuxUsable without the test of the encoder path.
MuxUsable_NoEncoderTest == MuxPair[1] # Nil /\ MuxPair[2] # Nil

MuxUsable == job.ffmpeg /\ MuxPair[1] # Nil /\ MuxPair[2] # Nil

\* The split-mux strategy is entered: downloadAndMux begins with the fetch
\* of the video-only stream.
MuxStart ==
    /\ pc = "mux_check"
    /\ MuxUsable
    /\ started' = Begin("mux")
    /\ pc' = "fetch_open"
    /\ phase' = "video"
    /\ fpath' = VideoPath(Title, Formats[MuxPair[1]])
    /\ stream' = NoStream
    /\ fetchErr' = "none"
    /\ UNCHANGED << previewUp, files, serverVars, loads, job, cancelled, dfp,
                    reported, created, cancelAt, errAt, prevVideo, lastLoad >>
    /\ UNCHANGED procs
    /\ UNCHANGED completes
    /\ UNCHANGED << expVars, selVars, srvVars, cbVars >>

\* MuxSkip returning an error to the caller instead of going on to the
\* progressive strategy.
MuxSkip_ReturnsError ==
    /\ pc = "mux_check"
    /\ ~MuxUsable
    /\ Return("err", NoPath, "mux")
    /\ UNCHANGED << previewUp, files, serverVars, loads, job, cancelled,
                    fetchVars, reported, started, created, cancelAt,
                    prevVideo, lastLoad >>
    /\ UNCHANGED procs
    /\ UNCHANGED completes
    /\ UNCHANGED << expVars, selVars, srvVars, cbVars >>

\* No encoder, or selectMuxFormats found no video-only or no audio-only
\* format: the strategy is skipped.
MuxSkip ==
    /\ pc = "mux_check"
    /\ ~MuxUsable
    /\ pc' = "prog_select"
    /\ UNCHANGED << previewUp, files, serverVars, loads, job, cancelled,
                    fetchVars, dfp, histVars, cancelAt, prevVideo, lastLoad >>
    /\ UNCHANGED procs
    /\ UNCHANGED completes
    /\ UNCHANGED << expVars, selVars, srvVars, cbVars >>

\* ------------------------------------------------------------- the fetches
\* GetStreamContext: the stream and its advertised length (0 if unknown),
\* or an error.  The source then delivers `left` reads of data.
GetStream ==
    /\ pc = "fetch_open"
    /\ \E ok \in BOOLEAN, total \in 0..MaxChunks, len \in 1..MaxChunks :
          /\ cancelled => ~ok
          /\ IF ok
             THEN /\ stream' = [total |-> total, left |-> len,
                                read |-> 0, last |-> 0]
                  /\ fetchErr' = "none"
                  /\ pc' = "fetch_create"
             ELSE /\ stream' = NoStream
                  /\ fetchErr' = "stream"
                  /\ pc' = "fetch_ret"
    /\ UNCHANGED << previewUp, files, serverVars, loads, job, cancelled,
                    phase, fpath, dfp, histVars, cancelAt, prevVideo, lastLoad >>
    /\ UNCHANGED procs
    /\ UNCHANGED completes
    /\ UNCHANGED << expVars, selVars, srvVars, cbVars >>

\* os.Create(destPath).
CreateFile ==
    /\ pc = "fetch_create"
    /\ \E ok \in BOOLEAN :
          IF ok
          THEN /\ files' = files \cup {fpath}
               /\ created' = created \cup {fpath}
               /\ pc' = "fetch_copy"
               /\ UNCHANGED fetchErr
          ELSE /\ fetchErr' = "create"
               /\ pc' = "fetch_ret"
               /\ UNCHANGED << files, created >>
    /\ UNCHANGED << previewUp, serverVars, loads, job, cancelled, phase,
                    fpath, stream, dfp, reported, started, errAt, cancelAt,
                    prevVideo, lastLoad >>
    /\ UNCHANGED procs
    /\ UNCHANGED completes
    /\ UNCHANGED << expVars, selVars, srvVars, cbVars >>

\* Deliver with the audio fetch mapped from 0 instead of from 0.75.
Deliver_AudioFromZero(p) ==
    CASE phase = "video" -> weightedProgress(0, VideoWeight, p)
      [] phase = "audio" -> weightedProgress(0, AudioWeight, p)
      [] OTHER           -> p

\* The callback the progressReader of this fetch was given: the job's
\* callback for the progressive fetch, a weightedProgress wrapper of it for
\* the two split fetches.
Deliver(p) ==
    CASE phase = "video" -> weightedProgress(0, VideoWeight, p)
      [] phase = "audio" -> weightedProgress(AudioBase, AudioWeight, p)
      [] OTHER           -> p

\* progressReader.Read after n more reads' worth of data: the new reader
\* state and the values reported.  Without a known length io.Copy reads the
\* stream directly and nothing is reported.
ReadStep(n) ==
    LET rd == stream.read + n
        progress == (rd * One) \div stream.total
    IN IF stream.total > 0
       THEN IF progress - stream.last >= ReportStep \/ progress >= One
            THEN [read |-> rd, last |-> progress, rep |-> <<Deliver(progress)>>]
            ELSE [read |-> rd, last |-> stream.last, rep |-> <<>>]
       ELSE [read |-> rd, last |-> stream.last, rep |-> <<>>]

\* One Read of io.Copy: data, end of stream, or an error.
Read ==
    /\ pc = "fetch_copy"
    /\ \E outcome \in {"data", "eof", "error"} :
          /\ cancelled => outcome = "error"
          /\ outcome = "data" => stream.left > 0
          /\ outcome = "eof" => stream.left = 0
          /\ LET n == IF outcome = "data" THEN 1 ELSE 0
                 r == ReadStep(n)
             IN /\ stream' = [stream EXCEPT !.left = @ - n, !.read = r.read,
                                            !.last = r.last]
                /\ reported' = reported \o r.rep
          /\ pc' = IF outcome = "data" THEN "fetch_copy" ELSE "fetch_ret"
          /\ fetchErr' = IF outcome = "error" THEN "transfer" ELSE "none"
    /\ UNCHANGED << previewUp, files, serverVars, loads, job, cancelled,
                    phase, fpath, dfp, started, created, errAt, cancelAt,
                    prevVideo, lastLoad >>
    /\ UNCHANGED procs
    /\ UNCHANGED completes
    /\ UNCHANGED << expVars, selVars, srvVars, cbVars >>

\* ------------------------------------------------------------ downloadAndMux
\* AfterVideoFetch fetching the video stream again after a failed fetch.
AfterVideoFetch_Retries ==
    /\ pc = "fetch_ret"
    /\ phase = "video"
    /\ IF fetchErr # "none"
       THEN /\ files' = files \ {fpath}
            /\ pc' = "fetch_open"
            /\ UNCHANGED << started, phase, fpath >>
       ELSE /\ pc' = "fetch_open"
            /\ phase' = "audio"
            /\ fpath' = AudioPath(Title, Formats[MuxPair[2]])
            /\ UNCHANGED << files, started >>
    /\ stream' = NoStream
    /\ fetchErr' = "none"
    /\ UNCHANGED << previewUp, serverVars, loads, job, cancelled, dfp,
                    reported, created, errAt, cancelAt, prevVideo, lastLoad >>
    /\ UNCHANGED procs
    /\ UNCHANGED completes
    /\ UNCHANGED << expVars, selVars, srvVars, cbVars >>

\* downloadToFile(video) has returned: on error the video temp file is
\* removed and the strategy fails; otherwise the audio fetch begins.
AfterVideoFetch ==
    /\ pc = "fetch_ret"
    /\ phase = "video"
    /\ IF fetchErr # "none"
       THEN /\ files' = files \ {fpath}
            /\ started' = End("failed")
            /\ pc' = "prog_select"
            /\ phase' = "none"
            /\ fpath' = NoPath
       ELSE /\ pc' = "fetch_open"
            /\ phase' = "audio"
            /\ fpath' = AudioPath(Title, Formats[MuxPair[2]])
            /\ UNCHANGED << files, started >>
    /\ stream' = NoStream
    /\ fetchErr' = "none"
    /\ UNCHANGED << previewUp, serverVars, loads, job, cancelled, dfp,
                    reported, created, errAt, cancelAt, prevVideo, lastLoad >>
    /\ UNCHANGED procs
    /\ UNCHANGED completes
    /\ UNCHANGED << expVars, selVars, srvVars, cbVars >>

\* AfterAudioFetch leaving the video temp file behind when the audio fetch
\* failed.
AfterAudioFetch_KeepsVideo ==
    /\ pc = "fetch_ret"
    /\ phase = "audio"
    /\ IF fetchErr # "none"
       THEN /\ files' = files \ {fpath}
            /\ started' = End("failed")
            /\ pc' = "prog_select"
            /\ UNCHANGED procs
       ELSE /\ pc' = "mux_run"
            /\ procs' = Launch("mux", MuxArgs(Formats[MuxPair[1]],
                                              Formats[MuxPair[2]]))
            /\ UNCHANGED << files, started >>
    /\ phase' = "none"
    /\ fpath' = NoPath
    /\ stream' = NoStream
    /\ fetchErr' = "none"
    /\ UNCHANGED << previewUp, serverVars, loads, job, cancelled, dfp,
                    reported, created, errAt, cancelAt, prevVideo, lastLoad >>
    /\ UNCHANGED completes
    /\ UNCHANGED << expVars, selVars, srvVars, cbVars >>

\* downloadToFile(audio) has returned: on error both temp files are removed
\* and the strategy fails; otherwise the encoder is started on the pair.
AfterAudioFetch ==
    /\ pc = "fetch_ret"
    /\ phase = "audio"
    /\ IF fetchErr # "none"
       THEN /\ files' = files \ {VideoPath(Title, Formats[MuxPair[1]]), fpath}
            /\ started' = End("failed")
            /\ pc' = "prog_select"
            /\ UNCHANGED procs
       ELSE /\ pc' = "mux_run"
            /\ procs' = Launch("mux", MuxArgs(Formats[MuxPair[1]],
                                              Formats[MuxPair[2]]))
            /\ UNCHANGED << files, started >>
    /\ phase' = "none"
    /\ fpath' = NoPath
    /\ stream' = NoStream
    /\ fetchErr' = "none"
    /\ UNCHANGED << previewUp, serverVars, loads, job, cancelled, dfp,
                    reported, created, errAt, cancelAt, prevVideo, lastLoad >>
    /\ UNCHANGED completes
    /\ UNCHANGED << expVars, selVars, srvVars, cbVars >>

\* MuxExit returning the mux error to the caller instead of falling through
\* to the progressive strategy.
MuxExit_ReturnsError ==
    /\ pc = "mux_run"
    /\ \E exitOK \in BOOLEAN, wrote \in BOOLEAN :
          LET outPath == PreviewPath(Title)
              temps == { VideoPath(Title, Formats[MuxPair[1]]),
                         AudioPath(Title, Formats[MuxPair[2]]) }
          IN /\ cancelled => ~exitOK
             /\ procs' = Exited(exitOK)
             /\ exitOK => wrote
             /\ created' = IF wrote THEN created \cup {outPath} ELSE created
             /\ IF exitOK
                THEN /\ files' = (files \cup {outPath}) \ temps
                     /\ reported' = Append(reported, One)
                     /\ started' = End("ok")
                     /\ Return("ok", outPath, "none")
                ELSE /\ files' = (files \ temps) \ {outPath}
                     /\ started' = End("failed")
                     /\ Return("err", NoPath, "mux")
                     /\ UNCHANGED reported
    /\ UNCHANGED << previewUp, serverVars, loads, job, cancelled, fetchVars,
                    cancelAt, prevVideo, lastLoad >>
    /\ UNCHANGED completes
    /\ UNCHANGED << expVars, selVars, srvVars, cbVars >>

\* The mux process exits.  On failure the two temp files and the output are
\* removed and the strategy fails; on success the temp files are removed,
\* 1.0 is reported and the output path is returned.
MuxExit ==
    /\ pc = "mux_run"
    /\ \E exitOK \in BOOLEAN, wrote \in BOOLEAN :
          LET outPath == PreviewPath(Title)
              temps == { VideoPath(Title, Formats[MuxPair[1]]),
                         AudioPath(Title, Formats[MuxPair[2]]) }
          IN /\ cancelled => ~exitOK
             /\ procs' = Exited(exitOK)
             /\ exitOK => wrote
             /\ created' = IF wrote THEN created \cup {outPath} ELSE created
             /\ IF exitOK
                THEN /\ files' = (files \cup {outPath}) \ temps
                     /\ reported' = Append(reported, One)
                     /\ started' = End("ok")
                     /\ Return("ok", outPath, "none")
                ELSE /\ files' = (files \ temps) \ {outPath}
                     /\ started' = End("failed")
                     /\ pc' = "prog_select"
                     /\ UNCHANGED << reported, dfp, errAt >>
    /\ UNCHANGED << previewUp, serverVars, loads, job, cancelled, fetchVars,
                    cancelAt, prevVideo, lastLoad >>
    /\ UNCHANGED completes
    /\ UNCHANGED << expVars, selVars, srvVars, cbVars >>

\* ------------------------------------------------------ progressive strategy
\* selectFormat: without a format the call fails, otherwise the progressive
\* fetch begins.
ProgSelect ==
    /\ pc = "prog_select"
    /\ LET fi == selectFormat(Formats)
       IN IF fi = Nil
          THEN /\ started' = Append(started, [s |-> "prog", out |-> "failed"])
               /\ Return("err", NoPath, "noformat")
               /\ UNCHANGED fetchVars
          ELSE /\ started' = Begin("prog")
               /\ pc' = "fetch_open"
               /\ phase' = "prog"
               /\ fpath' = DestPath(Title, Formats[fi])
               /\ stream' = NoStream
               /\ fetchErr' = "none"
               /\ UNCHANGED << dfp, errAt >>
    /\ UNCHANGED << previewUp, files, serverVars, loads, job, cancelled,
                    reported, created, cancelAt, prevVideo, lastLoad >>
    /\ UNCHANGED procs
    /\ UNCHANGED completes
    /\ UNCHANGED << expVars, selVars, srvVars, cbVars >>

\* The progressive fetch has ended.  A stream or creation failure returns
\* the error; a transfer failure removes the destination file first.  After
\* a complete transfer the compatibility transcode is started if the format
\* needs it and an encoder is available, else the file is returned.
AfterProgFetch ==
    /\ pc = "fetch_ret"
    /\ phase = "prog"
    /\ IF fetchErr # "none"
       THEN /\ files' = IF fetchErr = "transfer" THEN files \ {fpath} ELSE files
            /\ started' = End("failed")
            /\ Return("err", NoPath, fetchErr)
            /\ UNCHANGED procs
       ELSE /\ UNCHANGED files
            /\ IF needsSafariTranscode(Formats[selectFormat(Formats)]) /\ job.ffmpeg
               THEN /\ pc' = "transcode_run"
                    /\ procs' = Launch("transcode", << "libx264", "aac" >>)
                    /\ UNCHANGED << dfp, errAt, started >>
               ELSE /\ started' = End("ok")
                    /\ Return("ok", fpath, "none")
                    /\ UNCHANGED procs
    /\ UNCHANGED << previewUp, serverVars, loads, job, cancelled, fetchVars,
                    reported, created, cancelAt, prevVideo, lastLoad >>
    /\ UNCHANGED completes
    /\ UNCHANGED << expVars, selVars, srvVars, cbVars >>

\* TranscodeExit failing the whole call when the transcode failed.
TranscodeExit_FailsJob ==
    /\ pc = "transcode_run"
    /\ \E exitOK \in BOOLEAN, wrote \in BOOLEAN :
          LET previewPath == PreviewPath(Title)
          IN /\ cancelled => ~exitOK
             /\ procs' = Exited(exitOK)
             /\ exitOK => wrote
             /\ created' = IF wrote THEN created \cup {previewPath} ELSE created
             /\ IF exitOK
                THEN /\ files' = (files \cup {previewPath}) \ {fpath}
                     /\ Return("ok", previewPath, "none")
                ELSE /\ files' = IF wrote THEN files \cup {previewPath} ELSE files
                     /\ Return("err", NoPath, "transcode")
    /\ started' = End("ok")
    /\ UNCHANGED << previewUp, serverVars, loads, job, cancelled, fetchVars,
                    reported, cancelAt, prevVideo, lastLoad >>
    /\ UNCHANGED completes
    /\ UNCHANGED << expVars, selVars, srvVars, cbVars >>

\* transcodeToMP4 returns: on success the original is removed and the
\* transcoded copy returned; on failure the original is returned.
TranscodeExit ==
    /\ pc = "transcode_run"
    /\ \E exitOK \in BOOLEAN, wrote \in BOOLEAN :
          LET previewPath == PreviewPath(Title)
          IN /\ cancelled => ~exitOK
             /\ procs' = Exited(exitOK)
             /\ exitOK => wrote
             /\ created' = IF wrote THEN created \cup {previewPath} ELSE created
             /\ IF exitOK
                THEN /\ files' = (files \cup {previewPath}) \ {fpath}
                     /\ Return("ok", previewPath, "none")
                ELSE /\ files' = IF wrote THEN files \cup {previewPath} ELSE files
                     /\ Return("ok", fpath, "none")
    /\ started' = End("ok")
    /\ UNCHANGED << previewUp, serverVars, loads, job, cancelled, fetchVars,
                    reported, cancelAt, prevVideo, lastLoad >>
    /\ UNCHANGED completes
    /\ UNCHANGED << expVars, selVars, srvVars, cbVars >>

Next ==
    \/ LoadVideo
    \/ LoadVideoFinish
    \/ EmitComplete
    \/ Cancel
    \/ GetVideo
    \/ YtdlpStart
    \/ YtdlpSkip
    \/ YtdlpExit
    \/ MuxStart
    \/ MuxSkip
    \/ GetStream
    \/ CreateFile
    \/ Read
    \/ AfterVideoFetch
    \/ AfterAudioFetch
    \/ MuxExit
    \/ ProgSelect
    \/ AfterProgFetch
    \/ TranscodeExit

Spec == Init /\ [][Next]_vars

\* ------------------------------------------------------------------ export
\* Largest start or end time, in seconds, of a trim request.
MaxSeconds == 2

MicrosPerSecond == 1000000

\* The values the encoder writes in out_time_ms= lines (microseconds).
OutTimes == { -500000, 0, 500000, 2000000 }

\* The reader's conversion of one out_time_ms value: microseconds to
\* seconds, divided by the duration, limited to 1.0 from above.
TrimProgress(ms, duration) ==
    LET progress == (ms * One) \div (MicrosPerSecond * duration)
    IN IF progress > One THEN One ELSE progress

\* The session has loaded video id1: the state LoadVideo leaves behind.
Loaded ==
    /\ previewUp = TRUE
    /\ files = {PreviewPath("A")}
    /\ currentVideo = PreviewPath("A")
    /\ currentVideoID = "id1"
    /\ loads = 1
    /\ pc = "idle"
    /\ job = NoJob
    /\ cancelled = FALSE
    /\ phase = "none"
    /\ fpath = NoPath
    /\ stream = NoStream
    /\ fetchErr = "none"
    /\ dfp = NoResult
    /\ reported = <<>>
    /\ started = <<>>
    /\ created = {}
    /\ cancelAt = "none"
    /\ errAt = "none"
    /\ procs = <<>>
    /\ prevVideo = NoPath
    /\ lastLoad = "ok"
    /\ completes = 1

\* The session has loaded video id1 and the preview file has since been
\* removed from the temp directory: os.Stat(opts.InputPath) finds nothing.
LoadedFileGone ==
    /\ previewUp = TRUE
    /\ files = {}
    /\ currentVideo = PreviewPath("A")
    /\ currentVideoID = "id1"
    /\ loads = 1
    /\ pc = "idle"
    /\ job = NoJob
    /\ cancelled = FALSE
    /\ phase = "none"
    /\ fpath = NoPath
    /\ stream = NoStream
    /\ fetchErr = "none"
    /\ dfp = NoResult
    /\ reported = <<>>
    /\ started = <<>>
    /\ created = {}
    /\ cancelAt = "none"
    /\ errAt = "none"
    /\ procs = <<>>
    /\ prevVideo = NoPath
    /\ lastLoad = "ok"
    /\ completes = 1

\* The checks of ExportClip and TrimVideoWithProgress without the test
\* that the output directory is absolute.
\* File names are sequences of pieces of text; " ", ".", "/" and "\\" are
\* pieces of their own.
\* strings.Trim(s, cutset) and strings.TrimSpace.
RECURSIVE TrimCutset(_, _)
TrimCutset(s, cut) ==
    IF s = << >> THEN s
    ELSE IF Head(s) \in cut THEN TrimCutset(Tail(s), cut)
    ELSE IF s[Len(s)] \in cut THEN TrimCutset(SubSeq(s, 1, Len(s) - 1), cut)
    ELSE s

\* sanitizeFilename of the app: spaces trimmed, "/" and "\\" replaced by "_",
\* then dots and spaces trimmed (the names here stay below its length cap).
sanitizeFilename(name) ==
    LET trimmed == TrimCutset(name, {" "})
        mapped == [i \in DOMAIN trimmed |->
                      IF trimmed[i] \in {"/", "\\"} THEN "_" ELSE trimmed[i]]
    IN IF trimmed = << >> THEN << >> ELSE TrimCutset(mapped, {".", " "})

\* filepath.Ext: the suffix of the name from its last dot.
Ext(name) ==
    LET dots == {i \in DOMAIN name : name[i] = "."}
    IN IF dots = {} THEN << >>
       ELSE SubSeq(name, CHOOSE i \in dots : \A j \in dots : j <= i,
                   Len(name))

\* strings.EqualFold(ext, ".mp4").
EqualFoldMp4(ext) == ext \in { <<".", "mp4">>, <<".", "MP4">>, <<".", "Mp4">> }

\* ExportClip: the name of the output file for opts.Filename.
OutputName(filename) ==
    LET clean == sanitizeFilename(filename)
        base == IF clean = << >> THEN << "clip" >> ELSE clean
    IN IF EqualFoldMp4(Ext(base)) THEN base ELSE base \o << ".", "mp4" >>

\* filepath.Join(opts.OutputDir, outputName).
OutputPath(dir, filename) == << dir, OutputName(filename) >>

\* The path DownloadForPreview returned, joined from the temp directory and
\* the name of the file, in pieces.
FullPath(dir, path) ==
    << dir, << path[1] \o path[2] >> \o
            (IF path[3] = "" THEN << >>
             ELSE << ".", SubSeq(path[3], 2, Len(path[3])) >>) >>

\* What the caller can hand to ExportClip as opts.OutputDir (a relative
\* one is "" here) and as opts.Filename.
OutputDirs == { NoDir, TempDir, << "home", "clips" >> }
Filenames ==
    { << >>,
      << "A-preview" >>,
      << " ", "A-preview", ".", "mp4", "." >>,
      << "a", "/", "b", ".", "MP4" >> }

\* filepath.IsAbs(opts.OutputDir)
IsAbs(dir) == dir # NoDir

ExportError_NoAbsCheck(installed, inputPath, isAbs, st, en, mkdirOK, startOK) ==
    IF ~installed THEN "FFmpeg is not installed"
    ELSE IF inputPath = NoPath THEN "no video loaded"
    ELSE IF inputPath \notin files THEN "input file does not exist"
    ELSE IF en <= st THEN "end time must be greater than start time"
    ELSE IF ~mkdirOK THEN "failed to create output directory"
    ELSE IF ~startOK THEN "failed to start ffmpeg"
    ELSE "none"

\* The checks of ExportClip and then of TrimVideoWithProgress, in the
\* order of the code, up to cmd.Start: the error returned, "none" if the
\* encoder is started.
ExportError(installed, inputPath, isAbs, st, en, mkdirOK, startOK) ==
    IF ~installed THEN "FFmpeg is not installed"
    ELSE IF inputPath = NoPath THEN "no video loaded"
    ELSE IF ~isAbs THEN "output directory must be an absolute path"
    ELSE IF inputPath \notin files THEN "input file does not exist"
    ELSE IF en <= st THEN "end time must be greater than start time"
    ELSE IF ~mkdirOK THEN "failed to create output directory"
    ELSE IF ~startOK THEN "failed to start ffmpeg"
    ELSE "none"

\* ExportClip and TrimVideoWithProgress up to the start of the reader
\* goroutine: the checks, then cmd.Start.
ExportClip ==
    /\ epc = "idle"
    /\ \E ffmpegInstalled \in BOOLEAN, outputDir \in OutputDirs,
          filename \in Filenames,
          st \in 0..MaxSeconds, en \in 0..MaxSeconds,
          mkdirOK \in BOOLEAN, startOK \in BOOLEAN :
          LET inputPath == currentVideo
              outputDirAbs == IsAbs(outputDir)
              err == ExportError(ffmpegInstalled, inputPath, outputDirAbs,
                                 st, en, mkdirOK, startOK)
          IN /\ req' = [input |-> inputPath, abs |-> outputDirAbs,
                        start |-> st, end |-> en,
                        output |-> IF ffmpegInstalled /\ inputPath # NoPath
                                      /\ outputDirAbs
                                   THEN OutputPath(outputDir, filename)
                                   ELSE NoOutput]
             /\ IF err # "none"
                THEN /\ exportErr' = err
                     /\ errText' = {err}
                     /\ epc' = "done"
                     /\ UNCHANGED << trim, launched, proc, rpc >>
                ELSE /\ trim' = [start |-> st, end |-> en]
                     /\ launched' = launched + 1
                     /\ proc' = "running"
                     /\ rpc' = "read"
                     /\ epc' = "waiting"
                     /\ UNCHANGED << exportErr, errText >>
    /\ UNCHANGED << procOK, written, pipe, pipeClosed, buf, delivered,
                    completeSent, emitted, pipeCut, stderrText, outFile >>
    /\ UNCHANGED << acqVars, selVars, srvVars, cbVars >>

\* The encoder writes one out_time_ms line to its stdout.
EncoderWrite ==
    /\ proc = "running"
    /\ written < MaxLines
    /\ written' = written + 1
    /\ \E ms \in OutTimes :
          /\ pipe' = Append(pipe, ms)
          /\ emitted' = Append(emitted, ms)
    /\ UNCHANGED << epc, trim, launched, proc, procOK, pipeClosed, rpc, buf,
                    delivered, exportErr, completeSent, req, pipeCut,
                    stderrText, errText >>
    /\ UNCHANGED outFile
    /\ UNCHANGED << acqVars, selVars, srvVars, cbVars >>

\* What ffmpeg prints on its stderr when it fails.
Diagnostic == "Invalid data found when processing input"

\* The encoder process exits, with status zero or not; a failing encoder
\* has written its diagnostic to stderr.  With status zero it has written
\* the output file in full; one that fails does so before or after it has
\* opened the output file, and what it wrote by then stays behind.
EncoderExit ==
    /\ proc = "running"
    /\ proc' = "exited"
    /\ \E ok \in BOOLEAN :
          /\ procOK' = ok
          /\ stderrText' = IF ok THEN "" ELSE Diagnostic
          /\ outFile' \in IF ok THEN {"complete"} ELSE {"none", "partial"}
    /\ UNCHANGED << epc, trim, launched, written, pipe, pipeClosed, rpc, buf,
                    delivered, exportErr, completeSent, req, emitted,
                    pipeCut, errText >>
    /\ UNCHANGED << acqVars, selVars, srvVars, cbVars >>

\* The proper non-empty prefixes of the decimal digits of v >= 0, as numbers.
RECURSIVE DigitPrefixes(_)
DigitPrefixes(v) ==
    IF v < 10 THEN {} ELSE {v \div 10} \cup DigitPrefixes(v \div 10)

\* A read that ends inside the line  out_time_ms=<v>  leaves a last piece
\* without its newline.  The piece is handled as a line of its own: if the
\* cut falls inside the key the prefix test fails, if it falls after the key
\* ParseInt gets the digits read so far (none, or a lone minus sign, is a
\* parse error).  The values the piece can deliver:
CutValues(v) ==
    {v} \cup (IF v >= 0 THEN DigitPrefixes(v)
              ELSE {0 - p : p \in DigitPrefixes(0 - v)})

\* The reader goroutine's stdout.Read into its 1024-byte buffer: the bytes
\* of the pipe up to some point, which need not be the end of a line, or an
\* error once the pipe is closed or at end of stream, which ends the
\* goroutine.  buf gets the values of the lines and pieces that pass the
\* prefix test and parse; the rest of a cut line stays in the pipe and,
\* having lost its key, passes no prefix test later.
ReaderRead ==
    /\ rpc = "read"
    /\ \/ /\ pipeClosed \/ (pipe = <<>> /\ proc = "exited")
          /\ rpc' = "exit"
          /\ UNCHANGED << pipe, buf, pipeCut >>
       \/ /\ ~pipeClosed
          /\ pipe # <<>>
          /\ LET first == IF pipeCut THEN 2 ELSE 1
             IN \E k \in 1..Len(pipe) :
                   \/ /\ buf' = SubSeq(pipe, first, k)
                      /\ pipe' = SubSeq(pipe, k + 1, Len(pipe))
                      /\ pipeCut' = FALSE
                   \/ /\ \E piece \in {<<>>} \cup
                              (IF k = 1 /\ pipeCut THEN {}
                               ELSE {<<p>> : p \in CutValues(pipe[k])}) :
                            buf' = SubSeq(pipe, first, k - 1) \o piece
                      /\ pipe' = SubSeq(pipe, k, Len(pipe))
                      /\ pipeCut' = TRUE
          /\ rpc' = IF buf' = <<>> THEN "read" ELSE "lines"
    /\ UNCHANGED << epc, trim, launched, proc, procOK, written, pipeClosed,
                    delivered, exportErr, completeSent, req, emitted,
                    stderrText, errText >>
    /\ UNCHANGED outFile
    /\ UNCHANGED << acqVars, selVars, srvVars, cbVars >>

\* The reader goroutine handles the next out_time_ms line of its chunk and
\* calls the progress callback.
ReaderLine ==
    /\ rpc = "lines"
    /\ delivered' = Append(delivered,
                           TrimProgress(Head(buf), trim.end - trim.start))
    /\ buf' = Tail(buf)
    /\ rpc' = IF Tail(buf) = <<>> THEN "read" ELSE "lines"
    /\ UNCHANGED << epc, trim, launched, proc, procOK, written, pipe,
                    pipeClosed, exportErr, completeSent, req, emitted,
                    pipeCut, stderrText, errText >>
    /\ UNCHANGED outFile
    /\ UNCHANGED << acqVars, selVars, srvVars, cbVars >>

\* What exec.ExitError prints: the exit status, nothing the process wrote.
ExitStatusText == "exit status 1"

\* cmd.Wait returns once the process has exited; it closes the read end of
\* the stdout pipe.  A non-zero exit is returned as an error made of the
\* words "ffmpeg error" and the text of the exit error; cmd.Stderr is not
\* set, so what the encoder wrote there is discarded.
Wait ==
    /\ epc = "waiting"
    /\ proc = "exited"
    /\ pipeClosed' = TRUE
    /\ IF procOK
       THEN /\ epc' = "final"
            /\ UNCHANGED << exportErr, errText >>
       ELSE /\ epc' = "returned"
            /\ exportErr' = "ffmpeg error"
            /\ errText' = {"ffmpeg error", ExitStatusText}
    /\ UNCHANGED << trim, launched, proc, procOK, written, pipe, rpc, buf,
                    delivered, completeSent, req, emitted, pipeCut,
                    stderrText >>
    /\ UNCHANGED outFile
    /\ UNCHANGED << acqVars, selVars, srvVars, cbVars >>

\* The closing progressCb(1.0); TrimVideoWithProgress then returns nil.
FinalReport ==
    /\ epc = "final"
    /\ delivered' = Append(delivered, One)
    /\ epc' = "returned"
    /\ UNCHANGED << trim, launched, proc, procOK, written, pipe, pipeClosed,
                    rpc, buf, exportErr, completeSent, req, emitted,
                    pipeCut, stderrText, errText >>
    /\ UNCHANGED outFile
    /\ UNCHANGED << acqVars, selVars, srvVars, cbVars >>

\* ExportClip after TrimVideoWithProgress has returned: export:complete is
\* emitted unless the export failed.
ExportClipFinish ==
    /\ epc = "returned"
    /\ epc' = "done"
    /\ completeSent' = (exportErr = "none")
    /\ UNCHANGED << trim, launched, proc, procOK, written, pipe, pipeClosed,
                    rpc, buf, delivered, exportErr, req, emitted, pipeCut,
                    stderrText, errText >>
    /\ UNCHANGED outFile
    /\ UNCHANGED << acqVars, selVars, srvVars, cbVars >>

ExportNext ==
    \/ ExportClip
    \/ EncoderWrite
    \/ EncoderExit
    \/ ReaderRead
    \/ ReaderLine
    \/ Wait
    \/ FinalReport
    \/ ExportClipFinish

\* One export, in a session that has loaded a video, with the preview file
\* still there or gone, or has not.
InitExport ==
    /\ ExportInit /\ (Loaded \/ LoadedFileGone \/ AcqInit) /\ SelectIdle
    /\ ServerIdle /\ StartupOK /\ CallbackIdle

SpecExport == InitExport /\ [][ExportNext]_vars

\* ------------------------------------------- the ExportClip of yt-clipper
\* A session that loaded video "A" and then video "B": LoadVideo removes
\* nothing, so the file of "A" is still in the temp directory.
LoadedAfterEarlier ==
    /\ previewUp = TRUE
    /\ files = {PreviewPath("A"), PreviewPath("B")}
    /\ currentVideo = PreviewPath("B")
    /\ currentVideoID = "id2"
    /\ loads = 2
    /\ pc = "idle"
    /\ job = NoJob
    /\ cancelled = FALSE
    /\ phase = "none"
    /\ fpath = NoPath
    /\ stream = NoStream
    /\ fetchErr = "none"
    /\ dfp = NoResult
    /\ reported = <<>>
    /\ started = <<>>
    /\ created = {}
    /\ cancelAt = "none"
    /\ errAt = "none"
    /\ procs = <<>>
    /\ prevVideo = PreviewPath("A")
    /\ lastLoad = "ok"
    /\ completes = 1

\* The place of a file name among the names filepath.Glob returns, which
\* are sorted: by title, then "-" before ".".
GlobRank(path) ==
    (IF path[1] = "A" THEN 0 ELSE 10)
    + (CASE path[2] = "-audio" -> 0
         [] path[2] = "-preview" -> 1
         [] path[2] = "-video" -> 2
         [] OTHER -> 3)

\* filepath.Glob(filepath.Join(a.tempDir, "*.mp4")).
GlobMp4 == {f \in files : f[3] = ".mp4"}

\* matches[0]
GlobFirst == CHOOSE f \in GlobMp4 : \A g \in GlobMp4 : GlobRank(f) <= GlobRank(g)

\* ExportClip of yt-clipper/app.go, and TrimVideoWithProgress up to the
\* start of the reader goroutine.  The input is not the path the server
\* holds: it is the first file in the temp directory that matches *.mp4.
\* The file name is used as it is, with ".mp4" appended.
ClipperExportClip ==
    /\ epc = "idle"
    /\ \E ffmpegInstalled \in BOOLEAN, outputDir \in OutputDirs,
          filename \in Filenames,
          st \in 0..MaxSeconds, en \in 0..MaxSeconds,
          mkdirOK \in BOOLEAN, startOK \in BOOLEAN :
          LET found == ffmpegInstalled /\ currentVideoID # "" /\ GlobMp4 # {}
              inputPath == IF found THEN GlobFirst ELSE NoPath
              outputName == (IF filename = << >> THEN << "clip" >>
                             ELSE filename) \o << ".", "mp4" >>
              err == IF ~ffmpegInstalled THEN "FFmpeg is not installed"
                     ELSE IF currentVideoID = "" THEN "no video loaded"
                     ELSE IF GlobMp4 = {} THEN "video file not found"
                     ELSE IF ~IsAbs(outputDir)
                          THEN "output directory must be an absolute path"
                     ELSE IF en <= st
                          THEN "end time must be greater than start time"
                     ELSE IF ~mkdirOK THEN "failed to create output directory"
                     ELSE IF ~startOK THEN "failed to start ffmpeg"
                     ELSE "none"
          IN /\ req' = [input |-> inputPath, abs |-> IsAbs(outputDir),
                        start |-> st, end |-> en,
                        output |-> IF found /\ IsAbs(outputDir)
                                   THEN << outputDir, outputName >>
                                   ELSE NoOutput]
             /\ IF err # "none"
                THEN /\ exportErr' = err
                     /\ errText' = {err}
                     /\ epc' = "done"
                     /\ UNCHANGED << trim, launched, proc, rpc >>
                ELSE /\ trim' = [start |-> st, end |-> en]
                     /\ launched' = launched + 1
                     /\ proc' = "running"
                     /\ rpc' = "read"
                     /\ epc' = "waiting"
                     /\ UNCHANGED << exportErr, errText >>
    /\ UNCHANGED << procOK, written, pipe, pipeClosed, buf, delivered,
                    completeSent, emitted, pipeCut, stderrText, outFile >>
    /\ UNCHANGED << acqVars, selVars, srvVars, cbVars >>

ClipperNext ==
    \/ ClipperExportClip
    \/ EncoderWrite
    \/ EncoderExit
    \/ ReaderRead
    \/ ReaderLine
    \/ Wait
    \/ FinalReport
    \/ ExportClipFinish

\* One export of yt-clipper, in a session that has loaded two videos in
\* turn, or none.
InitClipper ==
    /\ ExportInit /\ (LoadedAfterEarlier \/ AcqInit) /\ SelectIdle
    /\ ServerIdle /\ StartupOK /\ CallbackIdle

SpecClipper == InitClipper /\ [][ClipperNext]_vars

\* ------------------------------------------------------ format selection
\* Longest format list handed to the selectors on their own.
MaxFormats == 3

AV1AAC == Mime("video", "mp4", {"av01", "mp4a"})
ThreeGP == Mime("video", "3gpp", {"mp4v"})
AMR == Mime("audio", "3gpp", {"samr"})

SelHeights == {480, 720, 1080}
SelBitrates == {100, 200}

\* The variants a list is drawn from: video with audio in each tier at
\* every height and bitrate, video without audio, audio alone, and one
\* video and one audio variant in a container the split selection does not
\* take.
SelFormats ==
    {Fmt(m, 2, h, br) : m \in {H264AAC, AV1AAC, VP9Opus},
                        h \in SelHeights, br \in SelBitrates}
    \cup {Fmt(VP9, 0, h, br) : h \in SelHeights, br \in SelBitrates}
    \cup {Fmt(H264, 0, 1080, 200)}
    \cup {Fmt(AAC, 2, 0, br) : br \in SelBitrates}
    \cup {Fmt(Opus, 2, 0, 200), Fmt(EC3, 6, 0, 300)}
    \cup {Fmt(ThreeGP, 0, 1080, 300), Fmt(AMR, 1, 0, 300)}

SelLists == UNION {[1..n -> SelFormats] : n \in 0..MaxFormats}

SelectInit ==
    /\ selIn \in SelLists
    /\ selProg = Unset
    /\ selMux = << Unset, Unset >>
    /\ selArgs = << >>

\* selectFormat(formats) is called on the list.
SelectFormat ==
    /\ selProg = Unset
    /\ selProg' = selectFormat(selIn)
    /\ UNCHANGED << selIn, selMux, selArgs >>
    /\ UNCHANGED << acqVars, expVars, srvVars, cbVars >>

\* selectMuxFormats(formats) is called on the list.
SelectMuxFormats ==
    /\ selMux = << Unset, Unset >>
    /\ selMux' = selectMuxFormats(selIn)
    /\ UNCHANGED << selIn, selProg, selArgs >>
    /\ UNCHANGED << acqVars, expVars, srvVars, cbVars >>

\* downloadAndMux is called with the pair and builds the codec arguments
\* of its encoder process.
MuxArguments ==
    /\ selMux # << Unset, Unset >>
    /\ selMux[1] # Nil /\ selMux[2] # Nil
    /\ selArgs = << >>
    /\ selArgs' = MuxArgs(selIn[selMux[1]], selIn[selMux[2]])
    /\ UNCHANGED << selIn, selProg, selMux >>
    /\ UNCHANGED << acqVars, expVars, srvVars, cbVars >>

SelectNext ==
    \/ SelectFormat
    \/ SelectMuxFormats
    \/ MuxArguments

\* The selectors on every list of up to MaxFormats variants, in a session
\* that is otherwise at rest with its preview server up.
InitSelect ==
    /\ SelectInit /\ AcqInit /\ previewUp /\ ExportInit
    /\ ServerIdle /\ StartupOK /\ CallbackIdle

SpecSelect == InitSelect /\ [][SelectNext]_vars

\* ----------------------------------------------- weightedProgress alone
MaxCalls == 2

\* The base and weight of the callbacks downloadAndMux builds, and the
\* remaining range of the mux.
Windows == { << 0, VideoWeight >>, << AudioBase, AudioWeight >>,
             << AudioBase + AudioWeight, One - AudioBase - AudioWeight >> }

\* Raw values below 0, inside [0,1] and above 1.
RawValues == { 0 - One, 0 - 20, 0, 20, 500, 980, One, One + 20, 2500 }

\* weightedProgress(parent, base, weight): the callback is built; parent
\* may be nil.
WeightedProgress ==
    /\ ~progCb.built
    /\ \E parent \in BOOLEAN, w \in Windows :
          progCb' = [built |-> TRUE, parent |-> parent,
                     base |-> w[1], weight |-> w[2]]
    /\ UNCHANGED << progRaw, progCalls >>
    /\ UNCHANGED << acqVars, expVars, selVars, srvVars >>

\* The callback is called with a raw value: with a nil parent it returns
\* at once, otherwise the parent is called.
CallbackCall ==
    /\ progCb.built
    /\ Len(progRaw) < MaxCalls
    /\ \E p \in RawValues :
          /\ progRaw' = Append(progRaw, p)
          /\ progCalls' =
                IF progCb.parent
                THEN Append(progCalls,
                            weightedProgress(progCb.base, progCb.weight, p))
                ELSE progCalls
    /\ UNCHANGED progCb
    /\ UNCHANGED << acqVars, expVars, selVars, srvVars >>

ProgressNext ==
    \/ WeightedProgress
    \/ CallbackCall

\* A callback built and called in a session that is otherwise at rest.
InitProgress ==
    /\ CallbackIdle /\ AcqInit /\ previewUp /\ ExportInit /\ SelectIdle
    /\ ServerIdle /\ StartupOK

SpecProgress == InitProgress /\ [][ProgressNext]_vars

\* -------------------------------------------------------- preview server
\* filepath.Abs of a directory: a relative one ("" here) is joined to the
\* working directory.
Abs(dir) == IF dir = NoDir THEN Cwd ELSE dir

\* filepath.Abs(videoPath): the file's path is filepath.Join(tempDir, name).
AbsPath(path) == IF path = NoPath THEN Cwd ELSE Abs(tempDir) \o << path >>

\* strings.HasPrefix on paths.
HasPrefix(s, prefix) ==
    Len(prefix) <= Len(s) /\ SubSeq(s, 1, Len(prefix)) = prefix

\* The ids a request can carry in /video/<id>.
ReqIDs == {"", "id1", "id2"}

\* The paths DownloadForPreview can return for a title.
ResultPaths(title) == {PreviewPath(title), DestPath(title, FormatLists[2][1])}

\* sync.RWMutex: Lock waits for the writer and all readers to leave, RLock
\* for the writer.
CanLock == ~mu.w /\ mu.r = 0

\* RLock that does not wait.
CanRLock_NoWait == TRUE

CanRLock == ~mu.w

acqRest == << previewUp, pc, job, cancelled, phase, fpath, stream, fetchErr,
              dfp, reported, started, created, cancelAt, errAt, procs,
              prevVideo, lastLoad, completes >>

\* Frame of a step of the goroutine running LoadVideo.
AppStep(next) ==
    /\ wpc' = next
    /\ UNCHANGED << tempDir, allowedDir, rq, resp >>
    /\ UNCHANGED << acqRest, expVars, selVars, cbVars >>

\* LoadVideo gets as far as its call of ClearVideo.
ServerLoadVideo ==
    /\ wpc = "idle"
    /\ loads < MaxLoads
    /\ loads' = loads + 1
    /\ AppStep("clear_lock")
    /\ UNCHANGED << files, currentVideo, currentVideoID, mu, wargs >>

\* ClearVideo: s.mu.Lock()
ClearVideoLock ==
    /\ wpc = "clear_lock"
    /\ CanLock
    /\ mu' = [mu EXCEPT !.w = TRUE]
    /\ AppStep("clear_path")
    /\ UNCHANGED << files, currentVideo, currentVideoID, loads, wargs >>

\* ClearVideo: s.currentVideo = ""
ClearVideoPath ==
    /\ wpc = "clear_path"
    /\ currentVideo' = NoPath
    /\ AppStep("clear_id")
    /\ UNCHANGED << files, currentVideoID, loads, mu, wargs >>

\* ClearVideo: s.currentVideoID = ""
ClearVideoID ==
    /\ wpc = "clear_id"
    /\ currentVideoID' = ""
    /\ AppStep("clear_unlock")
    /\ UNCHANGED << files, currentVideo, loads, mu, wargs >>

\* ClearVideo: the deferred s.mu.Unlock()
ClearVideoUnlock ==
    /\ wpc = "clear_unlock"
    /\ mu' = [mu EXCEPT !.w = FALSE]
    /\ AppStep("download")
    /\ UNCHANGED << files, currentVideo, currentVideoID, loads, wargs >>

\* DownloadForPreview returns: an error, and LoadVideo returns, or the path
\* of the file it left in the temp directory, and LoadVideo calls
\* SetCurrentVideo(videoPath, info.ID).
ServerDownload ==
    /\ wpc = "download"
    /\ \/ /\ AppStep("idle")
          /\ UNCHANGED << files, wargs >>
       \/ \E v \in Videos : \E path \in ResultPaths(v[2]) :
             /\ files' = files \cup {path}
             /\ wargs' = << path, v[1] >>
             /\ AppStep("set_lock")
    /\ UNCHANGED << currentVideo, currentVideoID, loads, mu >>

\* SetCurrentVideo: s.mu.Lock()
SetCurrentVideoLock ==
    /\ wpc = "set_lock"
    /\ CanLock
    /\ mu' = [mu EXCEPT !.w = TRUE]
    /\ AppStep("set_path")
    /\ UNCHANGED << files, currentVideo, currentVideoID, loads, wargs >>

\* SetCurrentVideo: s.currentVideo = path
SetCurrentVideoPath ==
    /\ wpc = "set_path"
    /\ currentVideo' = wargs[1]
    /\ AppStep("set_id")
    /\ UNCHANGED << files, currentVideoID, loads, mu, wargs >>

\* SetCurrentVideo: s.currentVideoID = videoID
SetCurrentVideoID ==
    /\ wpc = "set_id"
    /\ currentVideoID' = wargs[2]
    /\ AppStep("set_unlock")
    /\ UNCHANGED << files, currentVideo, loads, mu, wargs >>

\* SetCurrentVideo: the deferred s.mu.Unlock(); LoadVideo returns.
SetCurrentVideoUnlock ==
    /\ wpc = "set_unlock"
    /\ mu' = [mu EXCEPT !.w = FALSE]
    /\ wargs' = << NoPath, "" >>
    /\ AppStep("idle")
    /\ UNCHANGED << files, currentVideo, currentVideoID, loads >>

\* shutdown, called when the app is closing with no LoadVideo in progress:
\* the preview server is shut down and its listener closed, and the temp
\* directory is removed with all it holds, if startup recorded one.  With
\* tempDir empty the acquisitions wrote their files into the working
\* directory, and those are left.
Shutdown ==
    /\ wpc = "idle"
    /\ wpc' = "ended"
    /\ previewUp' = FALSE
    /\ files' = IF tempDir # NoDir THEN {} ELSE files
    /\ UNCHANGED << tempDir, allowedDir, mu, wargs, rq, resp >>
    /\ UNCHANGED << currentVideo, currentVideoID, loads, pc, job, cancelled,
                    phase, fpath, stream, fetchErr, dfp, reported, started,
                    created, cancelAt, errAt, procs, prevVideo, lastLoad,
                    completes >>
    /\ UNCHANGED << expVars, selVars, cbVars >>

\* Frame of a step of a ServeHTTP call.
ServeStep ==
    /\ UNCHANGED << tempDir, allowedDir, wpc, wargs >>
    /\ UNCHANGED << acqVars, expVars, selVars, cbVars >>

\* ServeHTTP is called: a path outside /video/ is answered not-found, from
\* any other the requested id is taken.
ServeHTTP ==
    /\ wpc # "ended"
    /\ rq.pc \in {"none", "done"}
    /\ \E underVideo \in BOOLEAN, requestedID \in ReqIDs :
          IF underVideo
          THEN /\ rq' = [NoRq EXCEPT !.pc = "rlock", !.id = requestedID]
               /\ resp' = "none"
          ELSE /\ rq' = [NoRq EXCEPT !.pc = "done"]
               /\ resp' = "404"
    /\ UNCHANGED mu
    /\ ServeStep

\* ServeHTTP: s.mu.RLock()
ServeRLock ==
    /\ rq.pc = "rlock"
    /\ CanRLock
    /\ mu' = [mu EXCEPT !.r = mu.r + 1]
    /\ rq' = [rq EXCEPT !.pc = "read_path", !.truePath = currentVideo,
                        !.trueID = currentVideoID]
    /\ UNCHANGED resp
    /\ ServeStep

\* ServeHTTP: videoPath := s.currentVideo
ServeReadPath ==
    /\ rq.pc = "read_path"
    /\ rq' = [rq EXCEPT !.pc = "read_id", !.path = currentVideo]
    /\ UNCHANGED << mu, resp >>
    /\ ServeStep

\* ServeHTTP: videoID := s.currentVideoID
ServeReadID ==
    /\ rq.pc = "read_id"
    /\ rq' = [rq EXCEPT !.pc = "read_dir", !.vid = currentVideoID]
    /\ UNCHANGED << mu, resp >>
    /\ ServeStep

\* ServeHTTP: allowedDir := s.allowedDir
ServeReadDir ==
    /\ rq.pc = "read_dir"
    /\ rq' = [rq EXCEPT !.pc = "runlock", !.dir = allowedDir]
    /\ UNCHANGED << mu, resp >>
    /\ ServeStep

\* ServeHTTP: s.mu.RUnlock()
ServeRUnlock ==
    /\ rq.pc = "runlock"
    /\ mu' = [mu EXCEPT !.r = mu.r - 1]
    /\ rq' = [rq EXCEPT !.pc = "checks"]
    /\ UNCHANGED resp
    /\ ServeStep

\* The checks of ServeHTTP without the test for an empty path.
ServeStatus_NoPathTest(requestedID, videoPath, videoID, dir) ==
    IF requestedID # videoID THEN "404"
    ELSE IF dir # NoDir /\ ~HasPrefix(AbsPath(videoPath), Abs(dir))
    THEN "403"
    ELSE IF videoPath \notin files THEN "404"
    ELSE "200"

\* The checks of ServeHTTP on its local copies, in the order of the code:
\* the status of the response.
ServeStatus(requestedID, videoPath, videoID, dir) ==
    IF requestedID # videoID \/ videoPath = NoPath THEN "404"
    ELSE IF dir # NoDir /\ ~HasPrefix(AbsPath(videoPath), Abs(dir))
    THEN "403"
    ELSE IF videoPath \notin files THEN "404"
    ELSE "200"

\* ServeHTTP after the read lock is released: the checks and the response.
ServeRespond ==
    /\ rq.pc = "checks"
    /\ resp' = ServeStatus(rq.id, rq.path, rq.vid, rq.dir)
    /\ rq' = [rq EXCEPT !.pc = "done"]
    /\ UNCHANGED mu
    /\ ServeStep

ServerNext ==
    \/ ServerLoadVideo
    \/ ClearVideoLock
    \/ ClearVideoPath
    \/ ClearVideoID
    \/ ClearVideoUnlock
    \/ ServerDownload
    \/ SetCurrentVideoLock
    \/ SetCurrentVideoPath
    \/ SetCurrentVideoID
    \/ SetCurrentVideoUnlock
    \/ Shutdown
    \/ ServeHTTP
    \/ ServeRLock
    \/ ServeReadPath
    \/ ServeReadID
    \/ ServeReadDir
    \/ ServeRUnlock
    \/ ServeRespond

\* A session after startup, with or without its temp directory, with the
\* preview server up: LoadVideo calls on one goroutine, requests on another.
InitServer ==
    /\ AcqInit /\ previewUp /\ ExportInit /\ SelectIdle
    /\ ServerIdle /\ (StartupOK \/ StartupNoTempDir) /\ CallbackIdle

SpecServer == InitServer /\ [][ServerNext]_vars

TypeOK ==
    /\ pc \in {"idle", "dfp_getvideo", "ytdlp_check", "ytdlp_run", "mux_check",
               "fetch_open", "fetch_create", "fetch_copy", "fetch_ret",
               "mux_run", "prog_select", "transcode_run", "dfp_done",
               "lv_emit"}
    /\ completes \in 0..1
    /\ dfp.status \in {"none", "ok", "err"}

\* ------------------------------------------------------------------ claims
Rank(name) == CASE name = "ytdlp" -> 1 [] name = "mux" -> 2 [] OTHER -> 3

IsNonDecreasing(seq) ==
    \A i, j \in DOMAIN seq : i < j => seq[i] <= seq[j]

Last(seq) == seq[Len(seq)]

\* C1: the strategies are started in the fixed order external-tool,
\* split-mux, progressive; a strategy is started only when every strategy
\* started before it has failed; and a successful return is the success of
\* the strategy started last, so nothing is started after a success.
C1_StrategyOrder ==
    /\ \A i, j \in DOMAIN started :
          i < j => Rank(started[i].s) < Rank(started[j].s)
    /\ \A i \in DOMAIN started : i < Len(started) => started[i].out = "failed"
    /\ \A i \in DOMAIN started : started[i].out = "ok" => pc = "dfp_done"
    /\ dfp.status = "ok" => started # <<>> /\ Last(started).out = "ok"

\* The external tool and the split-mux failed, the progressive fetch
\* succeeded and the call returned it.
C1_Witness ==
    /\ pc = "dfp_done"
    /\ dfp.status = "ok"
    /\ Len(started) = 3
    /\ started[1] = [s |-> "ytdlp", out |-> "failed"]
    /\ started[2] = [s |-> "mux", out |-> "failed"]

\* C2: once the format list is obtained, DownloadForPreview returns an error
\* only when the progressive strategy has been reached and has failed (no
\* format, stream open, file creation or transfer failure).
C2_ErrorOnlyFromProgressive ==
    (dfp.status = "err" /\ errAt # "getvideo") =>
        /\ started # <<>>
        /\ Last(started) = [s |-> "prog", out |-> "failed"]
        /\ errAt \in {"noformat", "stream", "create", "transfer"}

\* Both earlier strategies failed and the call returned the transfer error
\* of the progressive fetch.
C2_Witness ==
    /\ pc = "dfp_done"
    /\ dfp.status = "err"
    /\ errAt = "transfer"
    /\ Len(started) = 3

\* C3: when DownloadForPreview returns, no file it created remains in the
\* destination directory except the file it returns on success.
C3_NoStrayFiles ==
    pc = "dfp_done" =>
        (files \cap created) \subseteq
            (IF dfp.status = "ok" THEN {dfp.path} ELSE {})

\* C4: the values delivered to the job's progress callback during one
\* DownloadForPreview call are monotonically non-decreasing.
C4_ProgressMonotonic == IsNonDecreasing(reported)

\* C5: after a LoadVideo for a new video has completed successfully, the file
\* of the previously loaded video no longer exists in the temp directory.
C5_PreviousFileRemoved ==
    ( /\ pc = "idle"
      /\ lastLoad = "ok"
      /\ prevVideo # NoPath
      /\ prevVideo # currentVideo ) => prevVideo \notin files

\* C6: when a fetch that had created its destination file fails, the file
\* has been deleted by the time the error is returned to the fetch's caller:
\* downloadAndMux for the two split fetches (downloadToFile), LoadVideo for
\* the progressive fetch.
C6_PartialFileDeleted ==
    /\ ( /\ pc = "fetch_ret"
         /\ phase \in {"video", "audio"}
         /\ fetchErr = "transfer" ) => fpath \notin files
    /\ ( /\ pc = "dfp_done"
         /\ errAt = "transfer" ) => fpath \notin files

\* The steps of an acquisition that are in flight while time passes: the
\* yt-dlp run, a stream transfer, the mux, the compatibility transcode.
InFlight == {"ytdlp_run", "fetch_copy", "mux_run", "transcode_run"}

\* C7: if the context is cancelled while a step of the acquisition is in
\* flight, DownloadForPreview returns an error, never a success.
C7_CancelledReturnsError ==
    (pc = "dfp_done" /\ cancelAt \in InFlight) => dfp.status = "err"

\* C8: no progress callback is invoked after TrimVideoWithProgress has
\* returned (so no export:progress follows export:complete).
C8_NoCallbackAfterReturn ==
    [][(epc \in {"returned", "done"}) => (delivered' = delivered)]_vars

\* C9: on a successful export the last value delivered to the progress
\* callback is 1.0.
C9_FinalProgressIsOne ==
    (epc \in {"returned", "done"} /\ launched > 0 /\ exportErr = "none") =>
        delivered # <<>> /\ Last(delivered) = One

\* C10: every value forwarded to the export progress callback lies in [0,1].
C10_ProgressInUnitInterval ==
    \A i \in DOMAIN delivered : 0 <= delivered[i] /\ delivered[i] <= One

\* ---- C18
\* The members of list fs that satisfy a tier's test.
TopTier(fs) ==
    {i \in 1..Len(fs) :
        /\ fs[i].ch > 0
        /\ fs[i].mime.type = "video" /\ fs[i].mime.container = "mp4"
        /\ "avc1" \in fs[i].mime.codecs /\ "mp4a" \in fs[i].mime.codecs}

\* C18: whenever the list holds at least one variant with audio in
\* video/mp4 carrying avc1 and mp4a, selectFormat returns a variant of that
\* top tier, whatever else the list holds and in whatever order.
C18_TopTierWins ==
    (selProg # Unset /\ TopTier(selIn) # {}) => selProg \in TopTier(selIn)

\* A list where the top tier is neither first nor the tallest, selected.
C18_Witness ==
    /\ selProg # Unset
    /\ Len(selIn) = 3
    /\ TopTier(selIn) = {3}
    /\ selIn[1].ch > 0 /\ selIn[1].height > selIn[3].height
    /\ selIn[2].ch = 0

\* ---- C19
\* The tiers of progressive selection as sets of positions in list fs.
Mp4Tier(fs) ==
    {i \in 1..Len(fs) :
        /\ fs[i].ch > 0
        /\ fs[i].mime.type = "video" /\ fs[i].mime.container = "mp4"}
AudioTier(fs) ==
    {i \in 1..Len(fs) : fs[i].ch > 0 /\ fs[i].mime.type = "video"}
VideoTier(fs) == {i \in 1..Len(fs) : fs[i].mime.type = "video"}

\* The first of the three tiers of variants with audio that has a member.
WinningAudioTier(fs) ==
    IF TopTier(fs) # {} THEN TopTier(fs)
    ELSE IF Mp4Tier(fs) # {} THEN Mp4Tier(fs)
    ELSE AudioTier(fs)

\* The first of all four tiers that has a member.
WinningTier(fs) ==
    IF AudioTier(fs) # {} THEN WinningAudioTier(fs) ELSE VideoTier(fs)

\* Position r is the tier's best: 720 if the tier has one, and then the
\* greatest bitrate among its 720s; otherwise the greatest height, and the
\* greatest bitrate among the variants of that height.
BestOfTier(fs, tier, r) ==
    /\ r \in tier
    /\ IF \E i \in tier : fs[i].height = 720
       THEN /\ fs[r].height = 720
            /\ \A i \in tier :
                  fs[i].height = 720 => fs[i].bitrate <= fs[r].bitrate
       ELSE \A i \in tier :
               /\ fs[i].height <= fs[r].height
               /\ fs[i].height = fs[r].height
                     => fs[i].bitrate <= fs[r].bitrate

SplitVideo(fs) ==
    {i \in 1..Len(fs) :
        /\ fs[i].ch = 0
        /\ fs[i].mime.type = "video"
        /\ fs[i].mime.container \in {"mp4", "webm"}}
SplitAudio(fs) ==
    {i \in 1..Len(fs) :
        /\ fs[i].mime.type = "audio"
        /\ fs[i].mime.container \in {"mp4", "webm"}}

C11_ExportProgressMonotonic ==
    IsNonDecreasing(emitted) => IsNonDecreasing(delivered)

\* ---- C12
\* The request ExportClip was given is one the checks must refuse.
BadRequest ==
    \/ req.end <= req.start
    \/ req.input \notin files
    \/ ~req.abs

\* C12: an export request whose end time is not after its start time,
\* whose input file does not exist, or whose output directory is not an
\* absolute path ends with an error, and no encoder process is launched
\* for it.
C12_BadRequestRejected ==
    (epc # "idle" /\ BadRequest) => (exportErr # "none" /\ launched = 0)

\* A request with a loaded video, an absolute directory and the end after
\* the start, refused because the input file is gone.
C12_Witness ==
    /\ epc = "done"
    /\ req.input # NoPath /\ req.input \notin files
    /\ req.abs /\ req.end > req.start
    /\ exportErr = "input file does not exist"
    /\ launched = 0

\* ---- C13
\* C13: when the encoder process of TrimVideoWithProgress exits with a
\* failure, the error the export returns contains what the encoder wrote as
\* its diagnostic output.
C13_ErrorCarriesDiagnostic ==
    (epc \in {"returned", "done"} /\ exportErr = "ffmpeg error")
        => stderrText \in errText

\* ---- C17
\* C17: a LoadVideo call that returns an error leaves the preview server's
\* current video as it was when the call began.
C17_FailedLoadKeepsVideo ==
    (pc = "idle" /\ lastLoad = "err") => currentVideo = prevVideo

\* ---- C14
\* C14: a /video/<id> request whose id differs from the id of the video
\* that is current when the request is handled, or that is handled while no
\* video is loaded (the empty id included), is answered not-found, in every
\* state SetCurrentVideo and ClearVideo lead to.
C14_NotFoundUnlessCurrent ==
    (rq.pc = "done" /\ (rq.id # rq.trueID \/ rq.truePath = NoPath))
        => resp = "404"

\* A request with the empty id handled while no video is loaded, after one
\* had been loaded and cleared.
C14_Witness ==
    /\ rq.pc = "done" /\ resp = "404"
    /\ rq.id = "" /\ rq.truePath = NoPath /\ rq.trueID = ""
    /\ loads = 2 /\ files # {}

\* ---- C15
\* C15: the server never serves a file outside the temp directory made at
\* startup: a request is answered with the file only if there is such a
\* directory and the current video's path is inside it, whatever startup
\* left as the allowed directory.
C15_ServedOnlyFromTempDir ==
    (rq.pc = "done" /\ resp = "200")
        => (tempDir # NoDir /\ HasPrefix(AbsPath(rq.path), tempDir))

\* ---- C16
\* The pair is of one video, or empty on both sides.
OnePair(path, id) ==
    \/ path = NoPath /\ id = ""
    \/ path # NoPath /\ << id, path[1] >> \in Videos

\* C16: whatever ClearVideo and SetCurrentVideo calls run beside it, a
\* request's copies of the current path and id are the pair that was current
\* when it took the read lock: the path and the id of one video or both
\* empty, so a served file is the file of the video whose id was asked for.
C16_AtomicPair ==
    /\ rq.pc \in {"read_dir", "runlock", "checks", "done"}
          => /\ << rq.path, rq.vid >> = << rq.truePath, rq.trueID >>
             /\ OnePair(rq.path, rq.vid)
    /\ (rq.pc = "done" /\ resp = "200")
          => << rq.id, rq.path[1] >> \in Videos

\* A request has taken its copies of the pair of video id2 and left the
\* read section, and the next ClearVideo has cleared the path and not yet
\* the id.
C16_Witness ==
    /\ rq.pc = "checks" /\ rq.id = "id2"
    /\ rq.path # NoPath /\ rq.vid = "id2"
    /\ wpc = "clear_id"
    /\ currentVideo = NoPath /\ currentVideoID = "id2"

\* ---- C21
\* C21: for every list with no variant carrying both audio and video,
\* selectFormat returns a variant tagged as video if the list has one and
\* nil if it has none, the empty list included.
C21_LastResortVideo ==
    (selProg # Unset /\ AudioTier(selIn) = {})
        => IF VideoTier(selIn) = {} THEN selProg = Nil
           ELSE selProg \in VideoTier(selIn)

\* An audio variant first, then a video/webm variant without audio, which
\* is returned.
C21_Witness ==
    /\ selProg = 2
    /\ Len(selIn) = 3
    /\ AudioTier(selIn) = {}
    /\ selIn[1].mime.type = "audio"
    /\ selIn[2].mime.container = "webm"

\* ---- C22
\* The list of the call in progress has no video-only or no audio-only
\* candidate for the split selection.
NoSplitPair == SplitVideo(Formats) = {} \/ SplitAudio(Formats) = {}

StartedNames == {started[i].s : i \in 1..Len(started)}

\* C22: when selectMuxFormats has no video-only or no audio-only candidate,
\* the split-mux strategy is never entered (no split fetch, no mux process)
\* and the call goes on to the progressive selection.
C22_NoPairNoMux ==
    (pc # "idle" /\ NoSplitPair) =>
        /\ "mux" \notin StartedNames
        /\ phase \notin {"video", "audio"}
        /\ pc # "mux_run"
        /\ (pc \in {"fetch_open", "fetch_create", "fetch_copy", "fetch_ret",
                    "transcode_run"}
            \/ (pc = "dfp_done" /\ errAt # "getvideo"
                /\ "ytdlp" \notin {started[i].s : i \in
                       {j \in 1..Len(started) : started[j].out = "ok"}}))
           => "prog" \in StartedNames

\* An encoder is there and the list has a video-only variant and no
\* audio-only one: the progressive fetch is under way and no mux was begun.
C22_Witness ==
    /\ pc = "fetch_copy" /\ phase = "prog"
    /\ job.ffmpeg
    /\ SplitVideo(Formats) # {} /\ SplitAudio(Formats) = {}
    /\ "mux" \notin StartedNames

\* ---- C23
ProcsOf(tool) == {i \in 1..Len(procs) : procs[i].tool = tool}

\* The progressive fetch of the call succeeded and the call has returned.
ProgFetched ==
    /\ pc = "dfp_done"
    /\ started # <<>>
    /\ Last(started) = [s |-> "prog", out |-> "ok"]

\* The variant selectFormat picked is video/mp4 with avc1 and mp4a.
PickedIsH264AAC ==
    LET f == Formats[selectFormat(Formats)]
    IN /\ f.mime.type = "video" /\ f.mime.container = "mp4"
       /\ "avc1" \in f.mime.codecs /\ "mp4a" \in f.mime.codecs

C25_CopyOnlyCompatible ==
    selArgs # << >> =>
        /\ selArgs[1] = "copy" <=> "avc1" \in selIn[selMux[1]].mime.codecs
        /\ selArgs[2] = "copy" <=> "mp4a" \in selIn[selMux[2]].mime.codecs

\* ---- C24
\* The paths downloadAndMux works on for the call in progress.
MuxTemps ==
    { VideoPath(Title, Formats[MuxPair[1]]),
      AudioPath(Title, Formats[MuxPair[2]]) }

C26_ReportOnAdvanceOrOnce ==
    [][(pc = "fetch_copy" /\ reported' # reported) =>
          \/ stream'.last - stream.last >= ReportStep
          \/ stream'.last >= One /\ stream.last < One]_vars

\* ---- C27
\* C27: whenever a fetch with a known advertised total size has completed
\* without error, the fraction reported last is exactly 1.0 (so none
\* exceeds 1.0), however many reads of data the source delivered.
C27_CompletionIsExactlyOne ==
    (pc = "fetch_ret" /\ fetchErr = "none" /\ stream.total > 0) =>
        stream.last = One

\* ---- C28
\* The values the split-mux strategy delivered to the job's callback: those
\* after the two values (0.1 and 1.0) of a yt-dlp run that came before it.
MuxReported ==
    SubSeq(reported, IF "ytdlp" \in StartedNames THEN 3 ELSE 1, Len(reported))

\* The split-mux strategy of the call has succeeded.
MuxSucceeded ==
    /\ started # <<>>
    /\ Last(started) = [s |-> "mux", out |-> "ok"]

\* C28: in a run where the split-mux strategy succeeds, the values it
\* delivered (video fetch in 0-0.75, audio fetch in 0.75-0.95, then the
\* mux completion) are non-decreasing and the last one is exactly 1.0.
C28_MuxProgressComposed ==
    MuxSucceeded =>
        /\ IsNonDecreasing(MuxReported)
        /\ MuxReported # <<>>
        /\ Last(MuxReported) = One
        /\ \A i \in 1..(Len(MuxReported) - 1) :
              MuxReported[i] <= AudioBase + AudioWeight

\* A successful split-mux whose video and audio fetch both reported: a
\* value of the video range, one of the audio range, then 1.0.
C28_Witness ==
    /\ MuxSucceeded
    /\ Len(MuxReported) >= 3
    /\ \E i \in DOMAIN MuxReported :
          MuxReported[i] > 0 /\ MuxReported[i] <= VideoWeight
    /\ \E i \in DOMAIN MuxReported :
          MuxReported[i] > AudioBase /\ MuxReported[i] < One

\* ---- C30
\* C30: with no encoder path an acquisition launches no process at all and
\* enters no strategy but the progressive fetch; without the downloader
\* tool the yt-dlp process is never launched.
C30_NoEncoderNoProcess ==
    pc # "idle" =>
        /\ ~job.ffmpeg => (procs = << >> /\ StartedNames \subseteq {"prog"})
        /\ ~job.ytdlp => ProcsOf("ytdlp") = {}

\* Without an encoder, with yt-dlp installed, a split pair on offer and a
\* picked variant that is not H.264/AAC: the progressive fetch alone ran
\* and its file was returned as it is.
C30_Witness ==
    /\ pc = "dfp_done"
    /\ ~job.ffmpeg /\ job.ytdlp
    /\ MuxPair[1] # Nil /\ MuxPair[2] # Nil
    /\ ~PickedIsH264AAC
    /\ dfp.status = "ok"
    /\ StartedNames = {"prog"}
    /\ procs = << >>

\* ---- C29
\* The raw value v clamped to [0,1].
Clamped(v) == IF v < 0 THEN 0 ELSE IF v > One THEN One ELSE v

\* C29: for every raw value passed to a callback built by weightedProgress,
\* also below 0 and above 1, the parent is called once with exactly
\* base + clamped*weight, which lies in [base, base+weight]; with a nil
\* parent nothing is called.
C29_ClampedThenScaled ==
    IF progCb.parent
    THEN /\ Len(progCalls) = Len(progRaw)
         /\ \A i \in DOMAIN progRaw :
               /\ progCalls[i] * One =
                     progCb.base * One + Clamped(progRaw[i]) * progCb.weight
               /\ progCb.base <= progCalls[i]
               /\ progCalls[i] <= progCb.base + progCb.weight
    ELSE progCalls = << >>

\* The audio callback called with a value below 0 and one above 1: its
\* parent got the two ends of the audio range.
C29_Witness ==
    /\ progCb.built /\ progCb.parent
    /\ progCb.base = AudioBase
    /\ \E i, j \in DOMAIN progRaw :
          /\ progRaw[i] < 0 /\ progCalls[i] = AudioBase
          /\ progRaw[j] > One /\ progCalls[j] = AudioBase + AudioWeight

\* ---- C31
\* The yt-dlp run of the call in progress exited with status zero.
YtdlpExitedZero == \E i \in ProcsOf("ytdlp") : procs[i].out = "ok"

\* C31: the external-tool strategy succeeds only if yt-dlp exited with
\* status zero and the output file exists when it has exited, and then the
\* call returns that file; with a non-zero exit or a missing output file
\* the strategy alone fails: no error is returned for it and the call goes
\* on to the next strategy.
C31_YtdlpSuccessTest ==
    (started # <<>> /\ started[1].s = "ytdlp") =>
        /\ started[1].out = "ok" =>
              /\ YtdlpExitedZero
              /\ PreviewPath(Title) \in files
              /\ pc = "dfp_done"
              /\ dfp = [status |-> "ok", path |-> PreviewPath(Title)]
        /\ started[1].out = "failed" =>
              /\ pc # "ytdlp_run"
              /\ (pc = "mux_check" /\ YtdlpExitedZero) =>
                     PreviewPath(Title) \notin files
              /\ pc = "dfp_done" => Len(started) > 1

\* yt-dlp exited with status zero without an output file: the strategy
\* failed and a later strategy gave the call its result.
C31_Witness ==
    /\ pc = "dfp_done"
    /\ dfp.status = "ok"
    /\ Len(started) > 1
    /\ started[1] = [s |-> "ytdlp", out |-> "failed"]
    /\ YtdlpExitedZero

\* ---- C32
\* C32: when the session has ended (shutdown has run), every file an
\* acquisition of the session created has been removed, whether or not
\* startup could create the temp directory.
C32_ShutdownRemovesFiles ==
    wpc = "ended" => files = {}

\* ---- C33
\* C33: ExportClip never starts the encoder with an output path equal to
\* its input path, the temp file of the loaded video, whatever file name
\* and absolute output directory it is given.
C33_OutputIsNotInput ==
    launched > 0 => req.output # FullPath(tempDir, req.input)

\* ---- C34
\* C34: after an export whose encoder process failed, no file made by that
\* export, complete or not, is left at the output path.
C34_NoOutputAfterFailure ==
    (epc \in {"returned", "done"} /\ exportErr = "ffmpeg error") =>
        outFile = "none"

\* ---- C35
\* C35: whenever ExportClip starts the encoder, the input it hands to the
\* trim engine is the path the last successful LoadVideo registered as the
\* current video, and no other file of the temp directory.
C35_ExportsCurrentVideo ==
    launched > 0 => (req.input = currentVideo /\ lastLoad = "ok")

\* ---- C36
\* The place of the call's position in the one pass DownloadForPreview
\* makes: the yt-dlp run, the video fetch, the audio fetch, the mux, the
\* progressive fetch, the transcode.
StepRank ==
    LET fetchBase == CASE phase = "video" -> 5
                       [] phase = "audio" -> 9
                       [] OTHER -> 15
    IN CASE pc = "idle" -> 0
         [] pc = "dfp_getvideo" -> 1
         [] pc = "ytdlp_check" -> 2
         [] pc = "ytdlp_run" -> 3
         [] pc = "mux_check" -> 4
         [] pc = "fetch_open" -> fetchBase
         [] pc = "fetch_create" -> fetchBase + 1
         [] pc = "fetch_copy" -> fetchBase + 2
         [] pc = "fetch_ret" -> fetchBase + 3
         [] pc = "mux_run" -> 13
         [] pc = "prog_select" -> 14
         [] pc = "transcode_run" -> 19
         [] OTHER -> 20

\* C36: within one DownloadForPreview call nothing is tried twice: every
\* step moves the call forward in its one pass (or is one more read of the
\* stream being copied, or the one cancellation), so the call has returned
\* after a bounded number of steps; and it runs at most one yt-dlp, one mux
\* and one transcode process and enters at most three strategies.
C36_NoRetryTerminates ==
    [][(pc \notin {"idle", "dfp_done", "lv_emit"}) =>
          /\ \/ StepRank' > StepRank
             \/ /\ StepRank' = StepRank
                /\ pc = "fetch_copy"
                /\ stream'.left < stream.left
             \/ /\ StepRank' = StepRank
                /\ ~cancelled /\ cancelled'
                /\ stream' = stream
          /\ \A t \in {"ytdlp", "mux", "transcode"} :
                Cardinality(ProcsOf(t))' <= 1
          /\ Len(started') <= 3]_vars

\* A call that went through everything once: yt-dlp failed, the two split
\* fetches were made and the mux failed, the progressive fetch was made and
\* the transcode was run.
C36_Witness ==
    /\ pc = "dfp_done"
    /\ Len(started) = 3
    /\ \A t \in {"ytdlp", "mux", "transcode"} : Cardinality(ProcsOf(t)) = 1

\* ---- C37
\* LoadVideo has cleared the current video and not yet begun to register
\* the new one: DownloadForPreview is running or has just returned.
Acquiring == wpc \in {"download", "set_lock"}

\* C37: with one LoadVideo at a time, every /video/<id> request answered
\* between the moment LoadVideo has cleared the current video and the
\* moment it registers the new one is answered not-found, so no file the
\* acquisition may be writing is served; and a path is registered only by
\* the SetCurrentVideo call made after DownloadForPreview has returned one.
C37_NotFoundWhileAcquiring ==
    [][/\ (Acquiring /\ rq.pc = "checks" /\ rq'.pc = "done")
             => resp' = "404"
       /\ (currentVideo' # currentVideo /\ currentVideo' # NoPath)
             => (wpc = "set_path" /\ currentVideo' = wargs[1]
                 /\ wargs[1] \in files)]_vars

\* ---- C38
\* C38: download:complete is emitted exactly once by a LoadVideo call that
\* returns success and never by one that returns an error; it is emitted
\* when the server's current path and id are already those of the new
\* video, and no download:progress event of the call follows it.
C38_CompleteOnceAfterSet ==
    [][/\ (pc' = "idle" /\ lastLoad' = "ok") => completes' = 1
       /\ (pc' = "idle" /\ lastLoad' = "err") => completes' = 0
       /\ (completes' # completes /\ completes' # 0) =>
             /\ completes = 0 /\ completes' = 1
             /\ currentVideo # NoPath
             /\ currentVideo \in files
             /\ << currentVideoID, currentVideo[1] >> = job.video
             /\ lastLoad' = "ok"
       /\ Len(reported') > Len(reported) => (completes = 0 /\ completes' = 0)
      ]_vars

\* A second LoadVideo has returned success after progress was reported:
\* its one download:complete has been emitted and its video is current.
C38_Witness ==
    /\ pc = "idle"
    /\ loads = 2
    /\ lastLoad = "ok"
    /\ completes = 1
    /\ currentVideo # NoPath
    /\ prevVideo # NoPath

\* ---- C39
\* C39: the file a successful DownloadForPreview returns was written by
\* that same call; a file that was at the output path before the call is
\* not returned unless the call has written it.
C39_ReturnedFileWrittenByCall ==
    (pc = "dfp_done" /\ dfp.status = "ok") => dfp.path \in created

====
